---------------------------- MODULE Spec2Model ----------------------------
(***************************************************************************)
(* Deployment orchestration pipeline of autotunchi: the deployments table, *)
(* the processDeployment worker (src/lib/deploy/worker.ts), the            *)
(* deployments router (cancel, rollback), the push webhook and the manual  *)
(* trigger.  Every await of a handler that touches the database or an      *)
(* external collaborator is one step, so that concurrent handlers          *)
(* interleave exactly where the code yields.  Spec is the pipeline;        *)
(* FairSpec is Spec with every started run taking its next step;           *)
(* RouterSpec adds the reads of the deployments router to one worker;      *)
(* ApiSpec observes the webhook and the manual trigger call by call,       *)
(* FunctionSpec the pure functions (webhook library, parseResourceValue),  *)
(* BuilderSpec the steps of buildProject, ProvisionSpec deployProject and  *)
(* destroyProject against the provisioning engine, ProjectsSpec the        *)
(* projects router, and DnsSpec the calls of upsertDnsRecord on a zone.    *)
(***************************************************************************)
EXTENDS Integers, Sequences, FiniteSets, TLC

VARIABLES
    deployments,    \* the deployments table: a sequence of rows, the id is the index
    worker,         \* the processDeployment runs: position and local variables
    request,        \* the deployments.cancel and deployments.rollback requests; in
                    \* ApiSpec and FunctionSpec, slot 1 keeps the last call of an
                    \* endpoint or of an exported function, with its answer
    audit,          \* per row, what has happened to it: whether rollback inserted it,
                    \* the runs started on it, whether a cancel wrote it, the builder's
                    \* calls, the cluster resources its runs have left in place
    projects,       \* the projects table: a sequence of rows
    call,           \* the calls of the projects and deployments routers that read
                    \* or write projects: position, local variables, response
    stacks,         \* the provisioning engine's persisted stacks: per stack name, the
                    \* resources the stack has recorded
    cluster,        \* the objects of the cluster
    zone            \* the DNS records of the Cloudflare zone, in the order the
                    \* API lists them

\* what the pipeline does not write
platform == <<projects, call, stacks, cluster, zone>>

vars == <<deployments, worker, request, audit, projects, call, stacks, cluster, zone>>

-----------------------------------------------------------------------------
(* Bounds of the model *)

MaxDeployments == 2
MaxRuns == 2
MaxWorkers == 2
MaxRequests == 1

MaxCallers == 2
Workers == 1..MaxWorkers
Callers == 1..MaxCallers
Requests == 1..MaxRequests

-----------------------------------------------------------------------------
(* Values *)

NULL == "null"

\* null in a column whose values are modelled as character sequences
\* (imageTag, commitMsg); the empty string is <<>>
NULLSEQ == <<"null">>

\* the value of `new Date()`: the model keeps only that a timestamp was stamped
Now == "now"

Users == {"u1", "u2"}

\* The projects table: one project, of user u1; u2 owns none.
ProjectTable ==
    [p \in {"p1"} |->
        [userId |-> "u1", slug |-> "app1", repoFullName |-> "o/r1", branch |-> <<"main">>,
         webhookSecret |-> <<171>>]]

ProjectIds == DOMAIN ProjectTable

\* process.env.REGISTRY_URL
RegistryUrl == "registry"

\* Commit hashes, as character sequences longer than the 7 characters kept
\* by substring(0, 7).
Commits == { <<"a","b","c","1","2","3","4","x">> }

SomeCommit == CHOOSE c \in Commits : TRUE

Min(a, b) == IF a < b THEN a ELSE b

\* String.prototype.substring(0, n) on a character sequence
Substring(s, n) == SubSeq(s, 1, Min(n, Len(s)))

\* `${registryUrl}/${projectSlug}:${commitSha.substring(0, 7)}`
ImageTagOf(slug, sha) == <<RegistryUrl, "/", slug, ":">> \o Substring(sha, 7)

\* `Rollback to ${commitSha.substring(0, 7)}`
RollbackMsg(sha) == <<"Rollback to ">> \o Substring(sha, 7)

\* a row as inserted: every column the insert does not name takes its
\* default (status "pending" is also the column default, the rest null)
NewDeployment(projectId, commitSha, commitMsg, imageTag) ==
    [projectId |-> projectId, commitSha |-> commitSha, commitMsg |-> commitMsg,
     status |-> "pending", logs |-> NULL, buildLogs |-> NULL,
     imageTag |-> imageTag, error |-> NULL, finishedAt |-> NULL]

Ids == DOMAIN deployments

\* deployment.project.userId of a joined read
OwnerOf(id) == ProjectTable[deployments[id].projectId].userId


-----------------------------------------------------------------------------
(* Initial state: empty deployments table, nothing in flight *)

\* the value of a local variable that holds no row / no build result yet
NoRow == [NewDeployment(NULL, NULLSEQ, NULLSEQ, NULLSEQ) EXCEPT !.status = NULL]

\* what a run keeps of the row it read at pickup: the columns it reads
\* later (project, commit); the columns it never looks at again are blanked
Snapshot(row) ==
    [NoRow EXCEPT !.projectId = row.projectId, !.commitSha = row.commitSha]

NoBuildResult == [success |-> FALSE, imageTag |-> NULLSEQ, logs |-> NULL, error |-> NULL]

IdleWorker == [pc |-> "idle", id |-> 0, deployment |-> NoRow,
               buildResult |-> NoBuildResult, errorMessage |-> NULL, dnsError |-> NULL]

\* a request slot: the operation, its position, the id and (rollback) the
\* row read that it carries to its write, and its answer once it has answered
IdleRequest == [op |-> NULL, pc |-> "idle", id |-> 0, deployment |-> NoRow, outcome |-> NULL]

Answered(op, outcome) == [IdleRequest EXCEPT !.op = op, !.pc = "done", !.outcome = outcome]

\* the audit entry of a row just inserted
NewAudit(rollback) ==
    [rollback |-> rollback, runs |-> 0, cancelled |-> FALSE, builderCalled |-> FALSE,
     buildSucceeded |-> FALSE, resources |-> "none"]

\* the rows of the projects table at the start: the project of the pipeline
InitialProjects ==
    << [id |-> "p1", name |-> <<"A", "p", "p", "1">>, slug |-> <<"a", "p", "p", "1">>,
        subdomain |-> <<"a", "p", "p", "1">>, port |-> 3000, webhookId |-> NULL,
        webhookSecret |-> ProjectTable["p1"].webhookSecret,
        userId |-> ProjectTable["p1"].userId] >>

\* a caller of the routers that is not in a call
IdleCall == [op |-> NULL, pc |-> "idle"]

\* no stack has been created
NoStacks == [n \in {} |-> {}]

Init ==
    /\ deployments = <<>>
    /\ worker = [w \in Workers |-> IdleWorker]
    /\ request = [q \in Requests |-> IdleRequest]
    /\ audit = <<>>
    /\ projects = InitialProjects
    /\ call = [c \in Callers |-> IdleCall]
    /\ stacks = NoStacks
    /\ cluster = {}
    /\ zone = <<>>

\* db.insert(deployments).values(row).returning(): a fresh id, the new row
InsertDeployment(row, rollback) ==
    /\ Len(deployments) < MaxDeployments
    /\ deployments' = Append(deployments, row)
    /\ audit' = Append(audit, NewAudit(rollback))

\* db.update(deployments).set(fields).where(eq(deployments.id, id)): the
\* only condition is the id, whatever the row's current status
UpdateDeployment(id, row) ==
    deployments' = [deployments EXCEPT ![id] = row]

-----------------------------------------------------------------------------
(* processDeployment *)

\* the results buildProject can return for a deployment: it never throws;
\* every result carries the image tag computed from slug and commit, the
\* transcript, and on failure an error message ("" for an Error thrown
\* with an empty message)
BuildResults(dep) ==
    LET tag == ImageTagOf(ProjectTable[dep.projectId].slug, dep.commitSha) IN
    { [success |-> TRUE, imageTag |-> tag, logs |-> "transcript ok", error |-> NULL],
      [success |-> FALSE, imageTag |-> tag, logs |-> "transcript failed", error |-> "Build failed"],
      [success |-> FALSE, imageTag |-> tag, logs |-> "transcript failed", error |-> ""] }

\* the results deployProject can return: it never throws; error is the
\* message of what `stack.up` threw
DeployResults ==
    { [success |-> TRUE, error |-> NULL],
      [success |-> FALSE, error |-> "stack up failed"] }

\* JavaScript `a || b` on a string or undefined
OrElse(a, b) == IF a = NULL \/ a = "" THEN b ELSE a

\* the number of processDeployment runs started on the rows 1..n
RECURSIVE RunsStarted(_)
RunsStarted(n) == IF n = 0 THEN 0 ELSE audit[n].runs + RunsStarted(n - 1)

\* findFirst of an id that is not in the table: log and return
ProcessNotFound(w, id) ==
    /\ worker[w].pc = "idle"
    /\ id \notin Ids
    /\ UNCHANGED vars

\* findFirst with project and user: the run keeps this snapshot
Pickup(w, id) ==
    /\ worker[w].pc = "idle"
    /\ id \in Ids
    /\ RunsStarted(Len(audit)) < MaxRuns
    /\ audit' = [audit EXCEPT ![id].runs = @ + 1]
    /\ worker' = [worker EXCEPT ![w] =
          [IdleWorker EXCEPT !.pc = "start", !.id = id,
                             !.deployment = Snapshot(deployments[id])]]
    /\ UNCHANGED <<deployments, request>>
    /\ UNCHANGED platform

\* (mutant) the run goes on without persisting status "building"
WriteBuilding_Omitted(w) ==
    /\ worker[w].pc = "start"
    /\ worker' = [worker EXCEPT ![w].pc = "token"]
    /\ UNCHANGED <<deployments, request, audit>>
    /\ UNCHANGED platform

\* update: status "building"
WriteBuilding(w) ==
    /\ worker[w].pc = "start"
    /\ UpdateDeployment(worker[w].id,
          [deployments[worker[w].id] EXCEPT !.status = "building"])
    /\ worker' = [worker EXCEPT ![w].pc = "token"]
    /\ UNCHANGED <<request, audit>>
    /\ UNCHANGED platform

\* (mutant) without a token the run returns instead of throwing
GetToken_ReturnsEarly(w) ==
    /\ worker[w].pc = "token"
    /\ \E token \in {"gh-token", NULL} :
          worker' = [worker EXCEPT ![w] =
              IF token = NULL THEN IdleWorker ELSE [@ EXCEPT !.pc = "build"]]
    /\ UNCHANGED <<deployments, request, audit>>
    /\ UNCHANGED platform

\* getGitHubAccessToken(project.userId): the account row may be missing
GetToken(w) ==
    /\ worker[w].pc = "token"
    /\ \E token \in {"gh-token", NULL} :
          worker' = [worker EXCEPT ![w] =
              IF token = NULL
              THEN [@ EXCEPT !.pc = "catch", !.errorMessage = "GitHub access token not found"]
              ELSE [@ EXCEPT !.pc = "build"]]
    /\ UNCHANGED <<deployments, request, audit>>
    /\ UNCHANGED platform

\* buildProject(...) from the snapshot read at pickup
BuildProject(w) ==
    /\ worker[w].pc = "build"
    /\ \E res \in BuildResults(worker[w].deployment) :
          /\ worker' = [worker EXCEPT ![w].pc = "logs", ![w].buildResult = res]
          /\ audit' = [audit EXCEPT ![worker[w].id].builderCalled = TRUE,
                                    ![worker[w].id].buildSucceeded = @ \/ res.success]
    /\ UNCHANGED <<deployments, request>>
    /\ UNCHANGED platform

\* (mutant) a failed build result is not thrown
WriteBuildLogs_NoThrow(w) ==
    /\ worker[w].pc = "logs"
    /\ UpdateDeployment(worker[w].id,
          [deployments[worker[w].id] EXCEPT !.buildLogs = worker[w].buildResult.logs])
    /\ worker' = [worker EXCEPT ![w].pc = "deploying"]
    /\ UNCHANGED <<request, audit>>
    /\ UNCHANGED platform

\* (mutant) the image tag is persisted with the build logs, before the
\* success of the build is looked at
WriteBuildLogs_SetsImageTag(w) ==
    /\ worker[w].pc = "logs"
    /\ UpdateDeployment(worker[w].id,
          [deployments[worker[w].id] EXCEPT !.buildLogs = worker[w].buildResult.logs,
                                            !.imageTag = worker[w].buildResult.imageTag])
    /\ worker' = [worker EXCEPT ![w] =
          IF worker[w].buildResult.success
          THEN [@ EXCEPT !.pc = "deploying"]
          ELSE [@ EXCEPT !.pc = "catch",
                         !.errorMessage = OrElse(worker[w].buildResult.error, "Build failed")]]
    /\ UNCHANGED <<request, audit>>
    /\ UNCHANGED platform

\* (mutant) a failed build is thrown before its transcript is persisted
WriteBuildLogs_ThrowsFirst(w) ==
    /\ worker[w].pc = "logs"
    /\ IF worker[w].buildResult.success
       THEN /\ UpdateDeployment(worker[w].id,
                  [deployments[worker[w].id] EXCEPT !.buildLogs = worker[w].buildResult.logs])
            /\ worker' = [worker EXCEPT ![w].pc = "deploying"]
       ELSE /\ UNCHANGED deployments
            /\ worker' = [worker EXCEPT ![w].pc = "catch",
                  ![w].errorMessage = OrElse(worker[w].buildResult.error, "Build failed")]
    /\ UNCHANGED <<request, audit>>
    /\ UNCHANGED platform

\* update: buildLogs; then `if (!buildResult.success) throw`
WriteBuildLogs(w) ==
    /\ worker[w].pc = "logs"
    /\ UpdateDeployment(worker[w].id,
          [deployments[worker[w].id] EXCEPT !.buildLogs = worker[w].buildResult.logs])
    /\ worker' = [worker EXCEPT ![w] =
          IF worker[w].buildResult.success
          THEN [@ EXCEPT !.pc = "deploying"]
          ELSE [@ EXCEPT !.pc = "catch",
                         !.errorMessage = OrElse(worker[w].buildResult.error, "Build failed")]]
    /\ UNCHANGED <<request, audit>>
    /\ UNCHANGED platform

\* (mutant) the image tag is persisted, status "deploying" is not
WriteDeploying_ImageOnly(w) ==
    /\ worker[w].pc = "deploying"
    /\ UpdateDeployment(worker[w].id,
          [deployments[worker[w].id] EXCEPT !.imageTag = worker[w].buildResult.imageTag])
    /\ worker' = [worker EXCEPT ![w].pc = "provision"]
    /\ UNCHANGED <<request, audit>>
    /\ UNCHANGED platform

\* (mutant) status "deploying" is persisted alone, the image tag is not
WriteDeploying_StatusOnly(w) ==
    /\ worker[w].pc = "deploying"
    /\ UpdateDeployment(worker[w].id,
          [deployments[worker[w].id] EXCEPT !.status = "deploying"])
    /\ worker' = [worker EXCEPT ![w].pc = "provision"]
    /\ UNCHANGED <<request, audit>>
    /\ UNCHANGED platform

\* update: status "deploying" and imageTag, one statement
WriteDeploying(w) ==
    /\ worker[w].pc = "deploying"
    /\ UpdateDeployment(worker[w].id,
          [deployments[worker[w].id] EXCEPT !.status = "deploying",
                                            !.imageTag = worker[w].buildResult.imageTag])
    /\ worker' = [worker EXCEPT ![w].pc = "provision"]
    /\ UNCHANGED <<request, audit>>
    /\ UNCHANGED platform

\* what `stack.up` leaves in the cluster: everything on success, on a
\* failure whatever it had created by then (deployProject removes nothing)
ResourcesLeft(res, before) ==
    IF res.success THEN "complete" ELSE IF before = "none" THEN "partial" ELSE before

\* decryptJson (which may throw), then deployProject and
\* `if (!deployResult.success) throw`; on success the DNS block runs only
\* when the owner read at pickup has cloudflareToken and cloudflareZone (the
\* users table is not modelled: the value is drawn where it is first used)
DeployProject(w) ==
    /\ worker[w].pc = "provision"
    /\ \/ /\ worker' = [worker EXCEPT ![w].pc = "catch",
                                      ![w].errorMessage = "decrypt failed"]
          /\ UNCHANGED audit
       \/ \E res \in DeployResults, cloudflare \in BOOLEAN :
             /\ worker' = [worker EXCEPT ![w] =
                   IF res.success
                   THEN [@ EXCEPT !.pc = IF cloudflare THEN "dns" ELSE "live"]
                   ELSE [@ EXCEPT !.pc = "catch",
                                  !.errorMessage = OrElse(res.error, "Deployment failed")]]
             /\ audit' = [audit EXCEPT ![worker[w].id].resources = ResourcesLeft(res, @)]
    /\ UNCHANGED <<deployments, request>>
    /\ UNCHANGED platform

\* the outcomes of the DNS block: both calls return, or setupProjectDns
\* throws for the platform subdomain or for the custom domain
DnsOutcomes == {"ok", "subdomain throws", "custom domain throws"}

\* (mutant) what the DNS block throws reaches the catch of the run
SetupDns_Rethrows(w) ==
    /\ worker[w].pc = "dns"
    /\ \E outcome \in DnsOutcomes :
          worker' = [worker EXCEPT ![w] =
              IF outcome = "ok" THEN [@ EXCEPT !.pc = "live"]
              ELSE [@ EXCEPT !.pc = "catch", !.errorMessage = outcome]]
    /\ UNCHANGED <<deployments, request, audit>>
    /\ UNCHANGED platform

\* setupProjectDns for the platform subdomain and, when configured, the
\* custom domain; whatever is thrown is logged and swallowed
SetupDns(w) ==
    /\ worker[w].pc = "dns"
    /\ \E outcome \in DnsOutcomes :
          worker' = [worker EXCEPT ![w].pc = "live",
                                   ![w].dnsError = IF outcome = "ok" THEN NULL ELSE outcome]
    /\ UNCHANGED <<deployments, request, audit>>
    /\ UNCHANGED platform

\* update: status "live", finishedAt; the run returns
WriteLive(w) ==
    /\ worker[w].pc = "live"
    /\ UpdateDeployment(worker[w].id,
          [deployments[worker[w].id] EXCEPT !.status = "live", !.finishedAt = Now])
    /\ worker' = [worker EXCEPT ![w] = IdleWorker]
    /\ UNCHANGED <<request, audit>>
    /\ UNCHANGED platform

\* (mutant) the catch block also clears the image tag
WriteFailed_ClearsImageTag(w) ==
    /\ worker[w].pc = "catch"
    /\ UpdateDeployment(worker[w].id,
          [deployments[worker[w].id] EXCEPT !.status = "failed",
                                            !.error = worker[w].errorMessage,
                                            !.imageTag = NULLSEQ,
                                            !.finishedAt = Now])
    /\ worker' = [worker EXCEPT ![w] = IdleWorker]
    /\ UNCHANGED <<request, audit>>
    /\ UNCHANGED platform

\* catch: update status "failed", error, finishedAt; the run returns
WriteFailed(w) ==
    /\ worker[w].pc = "catch"
    /\ UpdateDeployment(worker[w].id,
          [deployments[worker[w].id] EXCEPT !.status = "failed",
                                            !.error = worker[w].errorMessage,
                                            !.finishedAt = Now])
    /\ worker' = [worker EXCEPT ![w] = IdleWorker]
    /\ UNCHANGED <<request, audit>>
    /\ UNCHANGED platform

-----------------------------------------------------------------------------
(* deploymentsRouter.cancel *)

\* (mutant) the status check lets a deploying row through
CancelRead_AllowsDeploying(q, user, id) ==
    /\ request[q].pc \in {"idle", "done"}
    /\ request' = [request EXCEPT ![q] =
          IF id \notin Ids \/ OwnerOf(id) # user
          THEN Answered("cancel", "NOT_FOUND")
          ELSE IF deployments[id].status \in {"live", "failed"}
          THEN Answered("cancel", "BAD_REQUEST")
          ELSE [IdleRequest EXCEPT !.op = "cancel", !.pc = "write", !.id = id]]
    /\ UNCHANGED <<deployments, worker, audit>>
    /\ UNCHANGED platform

\* (mutant) the row is looked up without the ownership check
CancelRead_AnyUser(q, user, id) ==
    /\ request[q].pc \in {"idle", "done"}
    /\ request' = [request EXCEPT ![q] =
          IF id \notin Ids
          THEN Answered("cancel", "NOT_FOUND")
          ELSE IF deployments[id].status # "pending" /\ deployments[id].status # "building"
          THEN Answered("cancel", "BAD_REQUEST")
          ELSE [IdleRequest EXCEPT !.op = "cancel", !.pc = "write", !.id = id]]
    /\ UNCHANGED <<deployments, worker, audit>>
    /\ UNCHANGED platform

\* findFirst with the project's userId, the ownership check and the status
\* check; the request goes on to its update only from pending or building
CancelRead(q, user, id) ==
    /\ request[q].pc \in {"idle", "done"}
    /\ request' = [request EXCEPT ![q] =
          IF id \notin Ids \/ OwnerOf(id) # user
          THEN Answered("cancel", "NOT_FOUND")
          ELSE IF deployments[id].status # "pending" /\ deployments[id].status # "building"
          THEN Answered("cancel", "BAD_REQUEST")
          ELSE [IdleRequest EXCEPT !.op = "cancel", !.pc = "write", !.id = id]]
    /\ UNCHANGED <<deployments, worker, audit>>
    /\ UNCHANGED platform

\* (mutant) the cancel does not stamp finishedAt
CancelWrite_NoFinishedAt(q) ==
    /\ request[q].pc = "write"
    /\ UpdateDeployment(request[q].id,
          [deployments[request[q].id] EXCEPT !.status = "failed",
                                             !.error = "Cancelled by user"])
    /\ request' = [request EXCEPT ![q] = Answered("cancel", "ok")]
    /\ audit' = [audit EXCEPT ![request[q].id].cancelled = TRUE]
    /\ UNCHANGED worker
    /\ UNCHANGED platform

\* update ... returning(): status "failed", error "Cancelled by user", finishedAt
CancelWrite(q) ==
    /\ request[q].pc = "write"
    /\ UpdateDeployment(request[q].id,
          [deployments[request[q].id] EXCEPT !.status = "failed",
                                             !.error = "Cancelled by user",
                                             !.finishedAt = Now])
    /\ request' = [request EXCEPT ![q] = Answered("cancel", "ok")]
    /\ audit' = [audit EXCEPT ![request[q].id].cancelled = TRUE]
    /\ UNCHANGED worker
    /\ UNCHANGED platform

-----------------------------------------------------------------------------
(* deploymentsRouter.rollback *)

\* (mutant) the precondition looks at the image only, not at the status
RollbackRead_AnyStatus(q, user, id) ==
    /\ request[q].pc \in {"idle", "done"}
    /\ request' = [request EXCEPT ![q] =
          IF id \notin Ids \/ OwnerOf(id) # user
          THEN Answered("rollback", "NOT_FOUND")
          ELSE IF deployments[id].imageTag = NULLSEQ \/ deployments[id].imageTag = <<>>
          THEN Answered("rollback", "BAD_REQUEST")
          ELSE [IdleRequest EXCEPT !.op = "rollback", !.pc = "insert", !.id = id,
                                   !.deployment = deployments[id]]]
    /\ UNCHANGED <<deployments, worker, audit>>
    /\ UNCHANGED platform

\* findFirst with the project, the ownership check and the precondition:
\* status live and a non-empty imageTag
RollbackRead(q, user, id) ==
    /\ request[q].pc \in {"idle", "done"}
    /\ request' = [request EXCEPT ![q] =
          IF id \notin Ids \/ OwnerOf(id) # user
          THEN Answered("rollback", "NOT_FOUND")
          ELSE IF deployments[id].status # "live"
                  \/ deployments[id].imageTag = NULLSEQ \/ deployments[id].imageTag = <<>>
          THEN Answered("rollback", "BAD_REQUEST")
          ELSE [IdleRequest EXCEPT !.op = "rollback", !.pc = "insert", !.id = id,
                                   !.deployment = deployments[id]]]
    /\ UNCHANGED <<deployments, worker, audit>>
    /\ UNCHANGED platform

\* (mutant) the new row is inserted without the image of the row read
RollbackInsert_DropsImage(q) ==
    /\ request[q].pc = "insert"
    /\ InsertDeployment(
          NewDeployment(request[q].deployment.projectId, request[q].deployment.commitSha,
                        RollbackMsg(request[q].deployment.commitSha), NULLSEQ),
          TRUE)
    /\ request' = [request EXCEPT ![q] = Answered("rollback", "ok")]
    /\ UNCHANGED worker
    /\ UNCHANGED platform

\* insert ... returning(): a new pending row with the project, the commit
\* and the image of the row read, and the synthetic message
RollbackInsert(q) ==
    /\ request[q].pc = "insert"
    /\ InsertDeployment(
          NewDeployment(request[q].deployment.projectId, request[q].deployment.commitSha,
                        RollbackMsg(request[q].deployment.commitSha),
                        request[q].deployment.imageTag),
          TRUE)
    /\ request' = [request EXCEPT ![q] = Answered("rollback", "ok")]
    /\ UNCHANGED worker
    /\ UNCHANGED platform

-----------------------------------------------------------------------------
(* POST /api/webhooks/github *)

\* Strings that are looked at character by character (the signature header,
\* the hex digests) are sequences of character codes; the codes the code
\* names are those of "sha256" and of "="
Sha256Tag == <<115, 104, 97, 50, 53, 54>>

EqualsSign == <<61>>

\* HMAC-SHA256 as an injective function of the secret and the raw body, both
\* byte sequences of a fixed length: every digest has the same length
Hmac(secret, payload) == secret \o payload

\* .digest("hex"): two lower-case hex digits per byte
HexDigit(n) == IF n < 10 THEN 48 + n ELSE 87 + n

HexEncode(bytes) ==
    [i \in 1..(2 * Len(bytes)) |->
        IF i % 2 = 1 THEN HexDigit(bytes[(i + 1) \div 2] \div 16)
                     ELSE HexDigit(bytes[i \div 2] % 16)]

\* the value of a hex digit, upper or lower case; -1 for any other character
HexValue(c) ==
    IF c >= 48 /\ c <= 57 THEN c - 48
    ELSE IF c >= 97 /\ c <= 102 THEN c - 87
    ELSE IF c >= 65 /\ c <= 70 THEN c - 55
    ELSE -1

\* Buffer.from(s, "hex"): the bytes of the leading pairs of hex digits; the
\* decoding stops at the first pair that is not two hex digits
BufferFromHex(s) ==
    LET valid(k) == \A i \in 1..(2 * k) : HexValue(s[i]) >= 0
        n == CHOOSE k \in 0..(Len(s) \div 2) :
                /\ valid(k)
                /\ \A j \in 0..(Len(s) \div 2) : valid(j) => j <= k
    IN [i \in 1..n |-> 16 * HexValue(s[2 * i - 1]) + HexValue(s[2 * i])]

\* crypto.timingSafeEqual: throws on buffers of different lengths
TimingSafeEqual(a, b) ==
    IF Len(a) # Len(b) THEN "throws" ELSE IF a = b THEN "true" ELSE "false"

\* String.prototype.split(sep) for a one-character separator
RECURSIVE Split(_, _)
Split(s, sep) ==
    IF \A i \in 1..Len(s) : s[i] # sep THEN <<s>>
    ELSE LET i == CHOOSE k \in 1..Len(s) : s[k] = sep /\ \A j \in 1..(k - 1) : s[j] # sep
         IN <<SubSeq(s, 1, i - 1)>> \o Split(SubSeq(s, i + 1, Len(s)), sep)

\* (mutant) the comparison is not wrapped in try/catch
CatchReturnsFalse_Rethrows(r) == r

\* try { return timingSafeEqual(..) } catch { return false }
CatchReturnsFalse(r) == IF r = "throws" THEN "false" ELSE r

\* how a call of verifyWebhookSignature(payload, signature, secret) ends:
\* it returns "true" or "false", or it "throws"; a header that is absent
\* (null) or empty is <<>>
VerifyWebhookSignatureEnds(payload, signature, secret) ==
    IF signature = <<>> THEN "false"
    ELSE LET parts == Split(signature, EqualsSign[1]) IN
         IF Len(parts) # 2 \/ parts[1] # Sha256Tag THEN "false"
         ELSE LET expectedSignature == HexEncode(Hmac(secret, payload))
                  providedSignature == parts[2]
              IN CatchReturnsFalse(TimingSafeEqual(BufferFromHex(expectedSignature),
                                                   BufferFromHex(providedSignature)))

\* the value verifyWebhookSignature returns to the endpoint
VerifyWebhookSignature(payload, signature, secret) ==
    VerifyWebhookSignatureEnds(payload, signature, secret) = "true"

\* the header GitHub sends for a body and a secret: "sha256=" and the hex digest
SignatureHeader(secret, payload) ==
    Sha256Tag \o EqualsSign \o HexEncode(Hmac(secret, payload))

\* the segments of the model that hold a line terminator, which "." of a
\* regular expression does not match
WithLineTerminator == { "a\nb" }

\* (mutant) the branch may be empty: /^refs\/heads\/(.*)$/
ExtractBranchFromRef_Star(ref) ==
    IF Len(ref) >= 3 /\ ref[1] = "refs" /\ ref[2] = "heads"
       /\ \A i \in 3..Len(ref) : ref[i] \notin WithLineTerminator
    THEN SubSeq(ref, 3, Len(ref))
    ELSE <<>>

\* extractBranchFromRef: /^refs\/heads\/(.+)$/ on a ref given by its
\* segments between "/" (the empty string is <<"">>); the branch is what
\* follows refs/heads/, not empty and without line terminator; null is <<>>
ExtractBranchFromRef(ref) ==
    IF Len(ref) >= 3 /\ ref[1] = "refs" /\ ref[2] = "heads"
       /\ (Len(ref) > 3 \/ ref[3] # "")
       /\ \A i \in 3..Len(ref) : ref[i] \notin WithLineTerminator
    THEN SubSeq(ref, 3, Len(ref))
    ELSE <<>>

\* the commit messages of the model and their first 500 characters
CommitMessages == { <<"short message">>, <<"message of 501 characters">> }

Substring500(msg) ==
    IF msg = <<"message of 501 characters">> THEN <<"its first 500 characters">> ELSE msg

\* the value JSON.parse gives for a request body, by the fields a push event
\* is read for (absent: <<>>, NULLSEQ or NULL); json is FALSE for a text
\* that JSON.parse throws on, object is FALSE for a JSON value that is no
\* object (null, a number)
Body(ref, after, repo, msg, pusher) ==
    [json |-> TRUE, object |-> TRUE, ref |-> ref, after |-> after, repository |-> repo,
     head_commit |-> msg, pusher |-> pusher]

NotJson == [Body(<<>>, NULLSEQ, NULL, NULLSEQ, FALSE) EXCEPT !.json = FALSE, !.object = FALSE]

NotAnObject == [Body(<<>>, NULLSEQ, NULL, NULLSEQ, FALSE) EXCEPT !.object = FALSE]

PushBody == Body(<<"refs", "heads", "main">>, SomeCommit, "o/r1", <<"message of 501 characters">>, TRUE)

\* The raw request bodies of the model, one byte each, and what JSON.parse
\* makes of them.  PushText and PushTextSpaced are two texts of the same
\* push event (they differ in white space only).
PushText == <<1>>
PushTextSpaced == <<2>>
TagPushText == <<3>>
NotJsonText == <<4>>
NoRefText == <<5>>
NoAfterText == <<6>>
NoRepositoryText == <<7>>
NoPusherText == <<8>>
OtherRepoText == <<9>>
NullText == <<10>>
OtherBranchText == <<11>>
NoMessageText == <<12>>

JsonParse(payload) ==
    CASE payload = PushText -> PushBody
      [] payload = PushTextSpaced -> PushBody
      [] payload = TagPushText -> [PushBody EXCEPT !.ref = <<"refs", "tags", "v1">>]
      [] payload = NoRefText -> [PushBody EXCEPT !.ref = <<>>]
      [] payload = NoAfterText -> [PushBody EXCEPT !.after = NULLSEQ]
      [] payload = NoRepositoryText -> [PushBody EXCEPT !.repository = NULL]
      [] payload = NoPusherText -> [PushBody EXCEPT !.pusher = FALSE]
      [] payload = OtherRepoText -> [PushBody EXCEPT !.repository = "o/r2"]
      [] payload = NullText -> NotAnObject
      [] payload = OtherBranchText -> [PushBody EXCEPT !.ref = <<"refs", "heads", "dev">>]
      [] payload = NoMessageText -> [PushBody EXCEPT !.head_commit = NULLSEQ]
      [] OTHER -> NotJson

\* JSON.stringify of a parsed body: the text without the white space
JsonStringify(body) ==
    IF body = PushBody THEN PushText
    ELSE CHOOSE t \in {TagPushText, NoRefText, NoAfterText, NoRepositoryText, NoPusherText,
                       OtherRepoText, NullText, OtherBranchText, NoMessageText} :
            JsonParse(t) = body

\* a secret that is not the project's
OtherSecret == <<205>>

\* the requests sent to the endpoint: <<event, raw body, signature header>>
WebhookRequests ==
    { <<"push", PushText, SignatureHeader(<<171>>, PushText)>>,
      <<"push", PushText, SignatureHeader(OtherSecret, PushText)>>,
      <<"push", PushText, <<>>>>,
      <<"ping", PushText, SignatureHeader(<<171>>, PushText)>>,
      <<"push", TagPushText, <<>>>>,
      <<"push", NotJsonText, <<>>>> }

\* parsePushEvent: null for a value that is no object or lacks ref, after or
\* repository; reading pusher.name of an absent pusher throws
ParsePushEvent(body) ==
    IF ~body.object THEN "null"
    ELSE IF body.ref = <<>> \/ body.after = NULLSEQ \/ body.repository = NULL THEN "null"
    ELSE IF ~body.pusher THEN "throws"
    ELSE "event"

\* a repository object that has no full_name
NoFullName == "repository without full_name"

\* how a call of parsePushEvent ends: it returns null, it throws, or it
\* returns the event made of the fields it reads; the full_name of a
\* repository that has none is undefined
ParsePushEventEnds(body) ==
    IF ParsePushEvent(body) = "event"
    THEN [kind |-> "event", ref |-> body.ref, after |-> body.after,
          full_name |-> IF body.repository = NoFullName THEN "undefined" ELSE body.repository,
          message |-> body.head_commit]
    ELSE [kind |-> ParsePushEvent(body)]

\* findFirst on repoFullName and branch
MatchingProjects(body) ==
    { p \in ProjectIds : /\ ProjectTable[p].repoFullName = body.repository
                         /\ ProjectTable[p].branch = ExtractBranchFromRef(body.ref) }

Reply(status, message) == [status |-> status, message |-> message]

\* the project of the findFirst: the matching row
MatchingProject(body) == CHOOSE p \in MatchingProjects(body) : TRUE

\* (mutant) the signature is verified against the re-serialised parsed body
WebhookOutcome_VerifiesReserialized(event, payload, signature) ==
    LET body == JsonParse(payload) IN
    IF event # "push" THEN Reply(200, "Event ignored")
    ELSE IF ~body.json THEN Reply(500, "Internal server error")
    ELSE IF ParsePushEvent(body) = "null" THEN Reply(400, "Invalid payload")
    ELSE IF ParsePushEvent(body) = "throws" THEN Reply(500, "Internal server error")
    ELSE IF ExtractBranchFromRef(body.ref) = <<>> THEN Reply(200, "Not a branch push")
    ELSE IF MatchingProjects(body) = {} THEN Reply(200, "No matching project found")
    ELSE IF ~VerifyWebhookSignature(JsonStringify(body), signature,
                                    ProjectTable[MatchingProject(body)].webhookSecret)
    THEN Reply(401, "Invalid signature")
    ELSE Reply(200, "Deployment triggered")

\* the answer of the POST handler to a request with this event header, raw
\* body and signature header
WebhookOutcome(event, payload, signature) ==
    LET body == JsonParse(payload) IN
    IF event # "push" THEN Reply(200, "Event ignored")
    ELSE IF ~body.json THEN Reply(500, "Internal server error")
    ELSE IF ParsePushEvent(body) = "null" THEN Reply(400, "Invalid payload")
    ELSE IF ParsePushEvent(body) = "throws" THEN Reply(500, "Internal server error")
    ELSE IF ExtractBranchFromRef(body.ref) = <<>> THEN Reply(200, "Not a branch push")
    ELSE IF MatchingProjects(body) = {} THEN Reply(200, "No matching project found")
    ELSE IF ~VerifyWebhookSignature(payload, signature,
                                    ProjectTable[MatchingProject(body)].webhookSecret)
    THEN Reply(401, "Invalid signature")
    ELSE Reply(200, "Deployment triggered")

\* head_commit?.message?.substring(0, 500) || null
WebhookCommitMsg(body) ==
    IF body.head_commit = NULLSEQ \/ Substring500(body.head_commit) = <<>>
    THEN NULLSEQ
    ELSE Substring500(body.head_commit)

\* (mutant) the row gets the short hash that the handler logs
WebhookInsert_ShortHash(event, payload, signature) ==
    IF WebhookOutcome(event, payload, signature) = Reply(200, "Deployment triggered")
    THEN LET body == JsonParse(payload) IN
         InsertDeployment(
            NewDeployment(MatchingProject(body), Substring(body.after, 7),
                          WebhookCommitMsg(body), NULLSEQ),
            FALSE)
    ELSE UNCHANGED <<deployments, audit>>

\* what the POST handler does to the table: a rejected or ignored request
\* only answers, an accepted push inserts one pending row
WebhookInsert(event, payload, signature) ==
    IF WebhookOutcome(event, payload, signature) = Reply(200, "Deployment triggered")
    THEN LET body == JsonParse(payload) IN
         InsertDeployment(
            NewDeployment(MatchingProject(body), body.after, WebhookCommitMsg(body), NULLSEQ),
            FALSE)
    ELSE UNCHANGED <<deployments, audit>>

\* the whole POST handler, its answer not kept
WebhookPost(event, payload, signature) ==
    /\ WebhookInsert(event, payload, signature)
    /\ UNCHANGED <<worker, request>>
    /\ UNCHANGED platform

-----------------------------------------------------------------------------
(* projectsRouter.triggerDeploy *)

\* the answer of triggerDeploy: the project must belong to the caller and
\* the caller's GitHub token must exist
TriggerOutcome(user, projectId, token) ==
    IF projectId \notin ProjectIds THEN "NOT_FOUND"
    ELSE IF ProjectTable[projectId].userId # user THEN "NOT_FOUND"
    ELSE IF token = NULL THEN "UNAUTHORIZED"
    ELSE "ok"

\* the whole mutation: on success the latest commit of the branch is read
\* and one pending row inserted
TriggerDeploy(user, projectId, token, commit, msg) ==
    /\ IF TriggerOutcome(user, projectId, token) = "ok"
       THEN InsertDeployment(NewDeployment(projectId, commit, Substring500(msg), NULLSEQ),
                             FALSE)
       ELSE UNCHANGED <<deployments, audit>>
    /\ UNCHANGED <<worker, request>>
    /\ UNCHANGED platform

-----------------------------------------------------------------------------
(* The system *)

Next ==
    \/ \E w \in Workers, id \in 1..MaxDeployments : ProcessNotFound(w, id)
    \/ \E w \in Workers, id \in 1..MaxDeployments : Pickup(w, id)
    \/ \E w \in Workers : WriteBuilding(w)
    \/ \E w \in Workers : GetToken(w)
    \/ \E w \in Workers : BuildProject(w)
    \/ \E w \in Workers : WriteBuildLogs(w)
    \/ \E w \in Workers : WriteDeploying(w)
    \/ \E w \in Workers : DeployProject(w)
    \/ \E w \in Workers : SetupDns(w)
    \/ \E w \in Workers : WriteLive(w)
    \/ \E w \in Workers : WriteFailed(w)
    \/ \E q \in Requests, u \in Users, id \in 1..MaxDeployments : CancelRead(q, u, id)
    \/ \E q \in Requests : CancelWrite(q)
    \/ \E q \in Requests, u \in Users, id \in 1..MaxDeployments : RollbackRead(q, u, id)
    \/ \E q \in Requests : RollbackInsert(q)
    \/ \E req \in WebhookRequests : WebhookPost(req[1], req[2], req[3])
    \/ \E u \in Users, token \in {"gh-token", NULL} :
          TriggerDeploy(u, "p1", token, SomeCommit,
                        <<"message of 501 characters">>)

Spec == Init /\ [][Next]_vars

\* the steps of the run of worker w after its first read
RunStep(w) ==
    \/ WriteBuilding(w)
    \/ GetToken(w)
    \/ BuildProject(w)
    \/ WriteBuildLogs(w)
    \/ WriteDeploying(w)
    \/ DeployProject(w)
    \/ SetupDns(w)
    \/ WriteLive(w)
    \/ WriteFailed(w)

\* deploymentsRouter.get and getLogs: findFirst with the project, then the
\* ownership check; the slot keeps the id asked for and whether the call
\* threw NOT_FOUND or returned the row (get) or its logs, status and error
\* (getLogs)
ReadDeployment(q, op, user, id) ==
    /\ request[q].pc \in {"idle", "done"}
    /\ request' = [request EXCEPT ![q] =
          [Answered(op, IF id \notin Ids \/ OwnerOf(id) # user THEN "NOT_FOUND" ELSE "ok")
             EXCEPT !.id = id]]
    /\ UNCHANGED <<deployments, worker, audit>>
    /\ UNCHANGED platform

\* the deployments router with the rows of manual triggers and the runs of
\* one worker on them
RouterNext ==
    \/ TriggerDeploy("u1", "p1", "gh-token", SomeCommit, <<"message of 501 characters">>)
    \/ \E id \in 1..MaxDeployments : Pickup(1, id)
    \/ RunStep(1)
    \/ \E q \in Requests, u \in Users, id \in 1..MaxDeployments : CancelRead(q, u, id)
    \/ \E q \in Requests : CancelWrite(q)
    \/ \E q \in Requests, u \in Users, id \in 1..MaxDeployments : RollbackRead(q, u, id)
    \/ \E q \in Requests : RollbackInsert(q)
    \/ \E q \in Requests, u \in Users, id \in 1..MaxDeployments :
          ReadDeployment(q, "get", u, id)
    \/ \E q \in Requests, u \in Users, id \in 1..MaxDeployments :
          ReadDeployment(q, "getLogs", u, id)

RouterSpec == Init /\ [][RouterNext]_vars

\* the pipeline when every await of a run comes back: the database answers
\* and every external call returns or throws
FairSpec == Spec /\ \A w \in Workers : WF_vars(RunStep(w))

-----------------------------------------------------------------------------
(* The endpoints observed at the boundary: each call with its answer *)

\* the raw bodies and, for each, the signature headers sent with it: the
\* valid one, none, one made with another secret, the valid one of another
\* text of the same event, one with another algorithm tag, one without "="
Payloads ==
    { PushText, PushTextSpaced, TagPushText, NotJsonText, NoRefText, NoAfterText,
      NoRepositoryText, NoPusherText, OtherRepoText, NullText, OtherBranchText,
      NoMessageText }

Sha1Tag == <<115, 104, 97, 49>>

SignaturesFor(payload) ==
    { SignatureHeader(<<171>>, payload),
      <<>>,
      SignatureHeader(OtherSecret, payload),
      SignatureHeader(<<171>>, PushText),
      Sha1Tag \o EqualsSign \o HexEncode(Hmac(<<171>>, payload)),
      Sha256Tag \o HexEncode(Hmac(<<171>>, payload)) }

ApiWebhookRequests ==
    UNION { {"push", "ping"} \X {p} \X SignaturesFor(p) : p \in Payloads }

\* the slot that keeps the last call at the boundary and its answer
WebhookAnswered(event, payload, signature) ==
    [op |-> "webhook", pc |-> "done", event |-> event, payload |-> payload,
     signature |-> signature, outcome |-> WebhookOutcome(event, payload, signature)]

\* the POST handler, its answer kept
WebhookCall(event, payload, signature) ==
    /\ WebhookInsert(event, payload, signature)
    /\ request' = [request EXCEPT ![1] = WebhookAnswered(event, payload, signature)]
    /\ UNCHANGED worker
    /\ UNCHANGED platform

TriggerAnswered(user, projectId, token) ==
    [op |-> "triggerDeploy", pc |-> "done", user |-> user, projectId |-> projectId,
     token |-> token, outcome |-> TriggerOutcome(user, projectId, token)]

\* the triggerDeploy mutation, its answer kept
TriggerCall(user, projectId, token, commit, msg) ==
    /\ IF TriggerOutcome(user, projectId, token) = "ok"
       THEN InsertDeployment(NewDeployment(projectId, commit, Substring500(msg), NULLSEQ),
                             FALSE)
       ELSE UNCHANGED <<deployments, audit>>
    /\ request' = [request EXCEPT ![1] = TriggerAnswered(user, projectId, token)]
    /\ UNCHANGED worker
    /\ UNCHANGED platform

ApiNext ==
    \/ \E req \in ApiWebhookRequests : WebhookCall(req[1], req[2], req[3])
    \/ \E u \in Users, p \in {"p1", "p9"}, token \in {"gh-token", NULL},
          msg \in CommitMessages :
          TriggerCall(u, p, token, SomeCommit, msg)

ApiSpec == Init /\ [][ApiNext]_vars

-----------------------------------------------------------------------------
(* The exported pure functions, each call with its arguments and result *)

\* the bits of a byte, and a byte with one of them flipped
Bits == 0..7

FlipBit(c, k) == IF (c \div (2 ^ k)) % 2 = 1 THEN c - 2 ^ k ELSE c + 2 ^ k

FlipAt(s, i, k) == [s EXCEPT ![i] = FlipBit(@, k)]

\* the secrets and the one-byte bodies that signatures are made for
VerifySecrets == { <<171>>, OtherSecret }

VerifyPayloads == { <<1>>, <<97>>, <<254>> }

\* what is done to a valid (body, header) pair before it is verified:
\* nothing, or one bit of the header or of the body is flipped
Mutations(secret, payload) ==
    { [kind |-> "none", at |-> 0, bit |-> 0] }
    \cup [kind : {"header"}, at : 1..Len(SignatureHeader(secret, payload)), bit : Bits]
    \cup [kind : {"body"}, at : 1..Len(payload), bit : Bits]

\* verifyWebhookSignature called on a valid pair after the mutation
VerifyCall(secret, payload, mutation) ==
    LET header == SignatureHeader(secret, payload)
        body == IF mutation.kind = "body"
                THEN FlipAt(payload, mutation.at, mutation.bit) ELSE payload
        signature == IF mutation.kind = "header"
                     THEN FlipAt(header, mutation.at, mutation.bit) ELSE header
    IN /\ request' = [request EXCEPT ![1] =
             [op |-> "verifyWebhookSignature", pc |-> "done", payload |-> body,
              signature |-> signature, secret |-> secret, mutation |-> mutation,
              outcome |-> VerifyWebhookSignature(body, signature, secret)]]
       /\ UNCHANGED <<deployments, worker, audit>>
       /\ UNCHANGED platform

\* the headers verifyWebhookSignature is called with for a secret and a
\* body: none, the valid one, and headers that are wrong in the tag, in the
\* number of "=" or in the digest (shorter, longer, of odd length, empty, no
\* hex digits, that of another secret)
VerifyHeaders(secret, payload) ==
    LET hex == HexEncode(Hmac(secret, payload))
        other == HexEncode(Hmac(IF secret = OtherSecret THEN <<171>> ELSE OtherSecret, payload))
    IN { <<>>,
         Sha256Tag \o EqualsSign \o hex,
         Sha1Tag \o EqualsSign \o hex,
         EqualsSign \o hex,
         Sha256Tag \o hex,
         Sha256Tag \o EqualsSign \o hex \o EqualsSign \o <<97, 98>>,
         Sha256Tag \o EqualsSign \o EqualsSign \o hex,
         Sha256Tag \o EqualsSign,
         Sha256Tag \o EqualsSign \o SubSeq(hex, 1, Len(hex) - 2),
         Sha256Tag \o EqualsSign \o SubSeq(hex, 1, Len(hex) - 1),
         Sha256Tag \o EqualsSign \o hex \o <<48, 48>>,
         Sha256Tag \o EqualsSign \o <<122, 122, 122, 122>>,
         Sha256Tag \o EqualsSign \o other }

\* verifyWebhookSignature called with a header, and how the call ends
VerifyHeaderCall(secret, payload, signature) ==
    /\ request' = [request EXCEPT ![1] =
          [op |-> "verifyHeader", pc |-> "done", payload |-> payload,
           signature |-> signature, secret |-> secret,
           outcome |-> VerifyWebhookSignatureEnds(payload, signature, secret)]]
    /\ UNCHANGED <<deployments, worker, audit>>
    /\ UNCHANGED platform

\* the decoded payloads parsePushEvent is called with: every combination of
\* ref, after, repository (absent, without full_name, with it), head_commit
\* and pusher present or absent, and a value that is no object
ParsePayloads ==
    { Body(ref, after, repo, msg, pusher) :
        ref \in { <<>>, <<"refs", "heads", "main">>, <<"refs", "tags", "v1">> },
        after \in { NULLSEQ, SomeCommit },
        repo \in { NULL, NoFullName, "o/r1" },
        msg \in { NULLSEQ, <<"short message">> },
        pusher \in BOOLEAN }
    \cup { NotAnObject }

\* parsePushEvent called with a decoded payload, and how the call ends
ParseCall(body) ==
    /\ request' = [request EXCEPT ![1] =
          [op |-> "parsePushEvent", pc |-> "done", payload |-> body,
           outcome |-> ParsePushEventEnds(body)]]
    /\ UNCHANGED <<deployments, worker, audit>>
    /\ UNCHANGED platform

\* the refs extractBranchFromRef is called with, by their segments:
\* branches (one with "/", one named heads, two with empty segments), tags,
\* refs/heads/ and refs/heads, strings that are no refs (the empty string,
\* one that has refs/heads/ after its start, one in another case, one with
\* a line break after refs/heads/)
Refs ==
    { <<"refs", "heads", "main">>, <<"refs", "heads", "feature", "x">>,
      <<"refs", "heads", "heads">>, <<"refs", "heads", "", "">>,
      <<"refs", "heads", "main", "">>, <<"refs", "heads", "">>, <<"refs", "heads">>,
      <<"refs", "headsmain">>, <<"refs", "tags", "v1">>, <<"refs", "tags", "heads", "main">>,
      <<"garbage">>, <<"">>, <<"x", "refs", "heads", "main">>, <<"", "refs", "heads", "main">>,
      <<"Refs", "heads", "main">>, <<"refs", "heads", "a\nb">> }

\* extractBranchFromRef called with a ref, and what it returns
ExtractCall(ref) ==
    /\ request' = [request EXCEPT ![1] =
          [op |-> "extractBranchFromRef", pc |-> "done", ref |-> ref,
           outcome |-> ExtractBranchFromRef(ref)]]
    /\ UNCHANGED <<deployments, worker, audit>>
    /\ UNCHANGED platform

\* the numbers of JavaScript that parseResourceValue deals in: NaN, or
\* num * 1024^pow / den with num not a multiple of 1024 (the products with
\* powers of 1024 are exact in a double; the "n" unit divides by 1000000)
NaN == [nan |-> TRUE, num |-> 0, den |-> 1, pow |-> 0]

RECURSIVE Normal(_)
Normal(x) ==
    IF x.nan THEN NaN
    ELSE IF x.num = 0 THEN [x EXCEPT !.pow = 0]
    ELSE IF x.num % 1024 = 0 THEN Normal([x EXCEPT !.num = @ \div 1024, !.pow = @ + 1])
    ELSE x

\* the number n * 1024^pow
Scaled(n, pow) == Normal([nan |-> FALSE, num |-> n, den |-> 1, pow |-> pow])

Number(n) == Scaled(n, 0)

Times(x, k) == IF x.nan THEN NaN ELSE Normal([x EXCEPT !.num = @ * k])

Times1024(x, pow) == IF x.nan THEN NaN ELSE Normal([x EXCEPT !.pow = @ + pow])

DividedBy(x, k) == IF x.nan THEN NaN ELSE [x EXCEPT !.den = @ * k]

\* numValue < 1000
LessThan1000(x) == ~x.nan /\ x.pow = 0 /\ x.num < 1000

\* strings are sequences of characters
Digits == <<"0", "1", "2", "3", "4", "5", "6", "7", "8", "9">>

IsDigit(c) == \E d \in 1..10 : Digits[d] = c

DigitValue(c) == (CHOOSE d \in 1..10 : Digits[d] = c) - 1

Letters == {"m", "n", "K", "M", "G", "T", "i", "e", "x"}

\* parseInt(s, 10): white space is skipped, then an optional sign, then the
\* digits up to the first character that is none; NaN without a digit
RECURSIVE DigitsValue(_, _)
DigitsValue(s, acc) ==
    IF s = <<>> \/ ~IsDigit(Head(s)) THEN acc
    ELSE DigitsValue(Tail(s), 10 * acc + DigitValue(Head(s)))

RECURSIVE ParseInt(_)
ParseInt(s) ==
    IF s = <<>> THEN NaN
    ELSE IF Head(s) = " " THEN ParseInt(Tail(s))
    ELSE LET signed == Head(s) \in {"-", "+"}
             digits == IF signed THEN Tail(s) ELSE s
         IN IF digits = <<>> \/ ~IsDigit(Head(digits)) THEN NaN
            ELSE Number((IF Head(s) = "-" THEN -1 ELSE 1) * DigitsValue(digits, 0))

\* value.endsWith(suffix) and value.slice(0, -1)
EndsWith(s, suffix) ==
    Len(s) >= Len(suffix) /\ SubSeq(s, Len(s) - Len(suffix) + 1, Len(s)) = suffix

SliceLast(s) == SubSeq(s, 1, Len(s) - 1)

\* (mutant) a number without unit is always read as cores
UnitlessValue_Cores(numValue) == Times(numValue, 1000)

\* lines 57-60: a small number without unit is cores, a large one bytes
UnitlessValue(numValue) ==
    IF LessThan1000(numValue) THEN Times(numValue, 1000) ELSE numValue

\* parseResourceValue
ParseResourceValue(value) ==
    IF value = <<>> THEN Number(0)
    ELSE IF EndsWith(value, <<"m">>) THEN ParseInt(SliceLast(value))
    ELSE IF EndsWith(value, <<"n">>) THEN DividedBy(ParseInt(SliceLast(value)), 1000000)
    ELSE LET numValue == ParseInt(value) IN
         IF EndsWith(value, <<"K", "i">>) THEN Times1024(numValue, 1)
         ELSE IF EndsWith(value, <<"M", "i">>) THEN Times1024(numValue, 2)
         ELSE IF EndsWith(value, <<"G", "i">>) THEN Times1024(numValue, 3)
         ELSE IF EndsWith(value, <<"T", "i">>) THEN Times1024(numValue, 4)
         ELSE IF ~numValue.nan /\ \A i \in 1..Len(value) : value[i] \notin Letters
         THEN UnitlessValue(numValue)
         ELSE IF numValue.nan \/ numValue.num = 0 THEN Number(0) ELSE numValue

\* the decimal digits of a natural number
RECURSIVE ToDigits(_)
ToDigits(n) ==
    IF n < 10 THEN <<Digits[n + 1]>> ELSE ToDigits(n \div 10) \o <<Digits[(n % 10) + 1]>>

\* the quantities parseResourceValue is called with: a number and a unit,
\* and strings that are no quantity
Quantities == {0, 1, 2, 100, 500, 512, 999, 1000, 1001, 4096}

Units == { <<>>, <<"m">>, <<"n">>, <<"K", "i">>, <<"M", "i">>, <<"G", "i">>, <<"T", "i">>,
           <<"K">>, <<"x">> }

OtherValues ==
    { <<>>, <<"m">>, <<"M", "i">>, <<"x", "1">>, <<"-", "5">>, <<" ", "7">>,
      <<"1", "e", "3">>, <<"1", ".", "5">> }

\* parseResourceValue called with a string, and what it returns
ResourceCall(value) ==
    /\ request' = [request EXCEPT ![1] =
          [op |-> "parseResourceValue", pc |-> "done", value |-> value,
           outcome |-> ParseResourceValue(value)]]
    /\ UNCHANGED <<deployments, worker, audit>>
    /\ UNCHANGED platform

-----------------------------------------------------------------------------
(* buildProject, step by step: the call is kept in the slot with the
   commands it has run, its transcript and the state of its work directory *)

\* the options of a build: the registry's user name and password may be empty
BuildOptions ==
    [commitSha : Commits, projectSlug : {"app1"},
     registryUsername : {"", "user"}, registryPassword : {"", "secret"}]

\* registryUsername && registryPassword
HasCredentials(options) == options.registryUsername # "" /\ options.registryPassword # ""

BuildTools == {"docker login", "docker build", "docker push", "pack build"}

\* the call that has not run anything: workDir is "none" until mkdir, then
\* "exists", then "removed"; failed is the step that failed, result is what
\* the try or the catch block returns
NewBuild(options) ==
    [op |-> "buildProject", pc |-> "mkdir", options |-> options,
     imageTag |-> ImageTagOf(options.projectSlug, options.commitSha),
     workDir |-> "none", rmCalled |-> FALSE, ran |-> <<>>, logs |-> <<>>,
     failed |-> NULL, thrown |-> NULL,
     buildResult |-> [success |-> FALSE, logs |-> <<>>],
     result |-> [success |-> FALSE, imageTag |-> NULLSEQ, logs |-> <<>>, error |-> NULL]]

Building(q, pc) == request[q].op = "buildProject" /\ request[q].pc = pc

BuildStep(q, slot) ==
    /\ request' = [request EXCEPT ![q] = slot]
    /\ UNCHANGED <<deployments, worker, audit>>
    /\ UNCHANGED platform

\* a step inside try throws: control goes to the catch block
Throws(slot, step, message) ==
    [slot EXCEPT !.pc = "catch", !.failed = step, !.thrown = message]

\* lines 174-178: buildId, workDir, imageTag, logs = ""
BuildStart(q, options) ==
    /\ request[q].pc \in {"idle", "done"}
    /\ BuildStep(q, NewBuild(options))

\* mkdir(workDir, { recursive: true })
Mkdir(q) ==
    /\ Building(q, "mkdir")
    /\ \/ BuildStep(q, [request[q] EXCEPT !.pc = "download", !.workDir = "exists",
                           !.logs = @ \o <<"=== Downloading source ===">>])
       \/ BuildStep(q, Throws(request[q], "mkdir", "mkdir failed"))

\* downloadRepository
Download(q) ==
    /\ Building(q, "download")
    /\ \/ BuildStep(q, [request[q] EXCEPT !.pc = "extract", !.logs = @ \o <<"Downloaded">>])
       \/ BuildStep(q, Throws(request[q], "download", "download failed"))

\* extractTarball: writeFile, then tar; tar ends with code 0, or with
\* another code (the promise is rejected), or cannot be spawned: the child's
\* "error" event has no listener, the promise is never settled and
\* buildProject does not return
ExtractTarball(q) ==
    /\ Building(q, "extract")
    /\ \/ BuildStep(q, Throws(request[q], "extract", "write failed"))
       \/ BuildStep(q, [request[q] EXCEPT !.pc = "strategy", !.ran = @ \o <<"tar">>,
                           !.logs = @ \o <<"Extracted">>])
       \/ BuildStep(q, [Throws(request[q], "extract", "Failed to extract tarball")
                           EXCEPT !.ran = @ \o <<"tar">>])
       \/ BuildStep(q, [request[q] EXCEPT !.pc = "never returns", !.failed = "extract"])

\* hasDockerfile (false also when the request to GitHub fails), then the
\* first step of the strategy
HasDockerfile(q) ==
    /\ Building(q, "strategy")
    /\ \E useDockerfile \in BOOLEAN :
          BuildStep(q, [request[q] EXCEPT
             !.pc = IF ~useDockerfile THEN "pack"
                    ELSE IF HasCredentials(request[q].options) THEN "login" ELSE "build",
             !.logs = @ \o <<IF useDockerfile THEN "=== Build Strategy: Dockerfile ==="
                             ELSE "=== Build Strategy: Buildpacks ===">>,
             !.buildResult.logs =
                 IF useDockerfile /\ ~HasCredentials(request[q].options)
                 THEN <<"=== Skipping Docker Login (no credentials) ===">> ELSE <<>>])

\* a step of buildWithDockerfile or buildWithBuildpacks that returns
\* { success: false, logs }
StrategyFails(slot, tool, section) ==
    [slot EXCEPT !.pc = "return", !.failed = tool, !.ran = @ \o <<tool>>,
                 !.buildResult = [success |-> FALSE, logs |-> @.logs \o <<section>>]]

\* (mutant) the build goes on after a failed login
DockerLogin_GoesOn(q) ==
    /\ Building(q, "login")
    /\ \/ BuildStep(q, [request[q] EXCEPT !.pc = "build", !.ran = @ \o <<"docker login">>,
                           !.buildResult.logs = @ \o <<"=== Docker Login ===">>])
       \/ BuildStep(q, [StrategyFails(request[q], "docker login", "=== Docker Login ===")
                           EXCEPT !.pc = "build"])

\* docker login
DockerLogin(q) ==
    /\ Building(q, "login")
    /\ \/ BuildStep(q, [request[q] EXCEPT !.pc = "build", !.ran = @ \o <<"docker login">>,
                           !.buildResult.logs = @ \o <<"=== Docker Login ===">>])
       \/ BuildStep(q, StrategyFails(request[q], "docker login", "=== Docker Login ==="))

\* docker build
DockerBuild(q) ==
    /\ Building(q, "build")
    /\ \/ BuildStep(q, [request[q] EXCEPT !.pc = "push", !.ran = @ \o <<"docker build">>,
                           !.buildResult.logs = @ \o <<"=== Docker Build ===">>])
       \/ BuildStep(q, StrategyFails(request[q], "docker build", "=== Docker Build ==="))

\* docker push, and the return of buildWithDockerfile
DockerPush(q) ==
    /\ Building(q, "push")
    /\ \/ BuildStep(q, [request[q] EXCEPT !.pc = "return", !.ran = @ \o <<"docker push">>,
                           !.buildResult = [success |-> TRUE,
                                            logs |-> @.logs \o <<"=== Docker Push ===">>]])
       \/ BuildStep(q, StrategyFails(request[q], "docker push", "=== Docker Push ==="))

\* pack build --publish; buildWithBuildpacks returns the result of the
\* command, not the transcript it has put the section title on
PackBuild(q) ==
    /\ Building(q, "pack")
    /\ \/ BuildStep(q, [request[q] EXCEPT !.pc = "return", !.ran = @ \o <<"pack build">>,
                           !.buildResult = [success |-> TRUE, logs |-> <<"pack output">>]])
       \/ BuildStep(q, [StrategyFails(request[q], "pack build", "pack output")
                           EXCEPT !.buildResult.logs = <<"pack output">>])

\* the return statement of the try block
BuildReturn(q) ==
    /\ Building(q, "return")
    /\ LET slot == request[q] IN
       BuildStep(q, [slot EXCEPT
          !.pc = "finally",
          !.logs = @ \o slot.buildResult.logs,
          !.result = [success |-> slot.buildResult.success, imageTag |-> slot.imageTag,
                      logs |-> slot.logs \o slot.buildResult.logs,
                      error |-> IF slot.buildResult.success THEN NULL ELSE "Build failed"]])

\* the catch block
BuildCatch(q) ==
    /\ Building(q, "catch")
    /\ LET slot == request[q] IN
       BuildStep(q, [slot EXCEPT
          !.pc = "finally",
          !.logs = @ \o <<"=== Error ===", slot.thrown>>,
          !.result = [success |-> FALSE, imageTag |-> slot.imageTag,
                      logs |-> slot.logs \o <<"=== Error ===", slot.thrown>>,
                      error |-> slot.thrown]])

\* (mutant) the directory is removed after a successful build only
BuildFinally_OnSuccessOnly(q) ==
    /\ Building(q, "finally")
    /\ IF request[q].result.success
       THEN \/ BuildStep(q, [request[q] EXCEPT !.pc = "done", !.rmCalled = TRUE,
                                !.workDir = IF @ = "exists" THEN "removed" ELSE @])
            \/ BuildStep(q, [request[q] EXCEPT !.pc = "done", !.rmCalled = TRUE])
       ELSE BuildStep(q, [request[q] EXCEPT !.pc = "done"])

\* the finally block: rm(workDir, { recursive, force }) removes the
\* directory or throws, which is ignored; then buildProject returns
BuildFinally(q) ==
    /\ Building(q, "finally")
    /\ \/ BuildStep(q, [request[q] EXCEPT !.pc = "done", !.rmCalled = TRUE,
                           !.workDir = IF @ = "exists" THEN "removed" ELSE @])
       \/ BuildStep(q, [request[q] EXCEPT !.pc = "done", !.rmCalled = TRUE])

BuilderNext ==
    \E q \in Requests :
       \/ \E options \in BuildOptions : BuildStart(q, options)
       \/ Mkdir(q)
       \/ Download(q)
       \/ ExtractTarball(q)
       \/ HasDockerfile(q)
       \/ DockerLogin(q)
       \/ DockerBuild(q)
       \/ DockerPush(q)
       \/ PackBuild(q)
       \/ BuildReturn(q)
       \/ BuildCatch(q)
       \/ BuildFinally(q)

BuilderSpec == Init /\ [][BuilderNext]_vars

-----------------------------------------------------------------------------
(* deployProject and destroyProject: the program that declares the cluster
   objects, and the provisioning engine that reconciles a stack with it *)

\* the cluster API calls that succeed in one run before the API fails
MaxOps == 5

\* the platform's domain and a domain of a customer
PlatformDomain == "apps.example.com"

CustomDomain == <<"shop.example.org">>

\* the desired states: envVars (its keys) is empty or not; no custom domain
DeploymentConfigs ==
    [projectSlug : {"app1", "app2"}, imageTag : {"registry/app:1"},
     envVars : {{}, {"API_KEY"}}, subdomain : {"app"}, platformDomain : {PlatformDomain},
     customDomain : {NULLSEQ}]

\* Object.keys(config.envVars).length > 0
HasEnvVars(config) == Cardinality(config.envVars) > 0

\* `${config.subdomain}.${config.platformDomain}`
PlatformHost(config) == <<config.subdomain, ".", config.platformDomain>>

\* (mutant) the empty string counts as a custom domain
HasCustomDomain_Defined(config) == config.customDomain # NULLSEQ

\* if (config.customDomain): neither undefined nor the empty string
HasCustomDomain(config) == config.customDomain \notin {NULLSEQ, <<>>}

\* hosts, and the rule hosts.map makes of each
Hosts(config) ==
    <<PlatformHost(config)>>
    \o (IF HasCustomDomain(config) THEN <<config.customDomain>> ELSE <<>>)

IngressRule(host, config) ==
    [host |-> host, path |-> "/", pathType |-> "Prefix",
     service |-> <<config.projectSlug>>, port |-> 80]

\* how the world answers one run: the state backend cannot be reached, or
\* the cluster API fails after budget calls, with a provider that replaces
\* (upsert) or refuses an object that is in the cluster already
Answers ==
    { [backendUp |-> FALSE, budget |-> 0, upsert |-> FALSE] }
    \cup [backendUp : {TRUE}, budget : 0..MaxOps, upsert : BOOLEAN]

\* getStackName
GetStackName(projectSlug) == <<"autotunchi-", projectSlug, "-prod">>

\* createDeploymentProgram: the resources in the order they are declared,
\* each with its logical name (urn), its kind, metadata.name, what of the
\* configuration its spec holds, its protect option, and the resources it
\* depends on: those of its dependsOn option and those whose outputs it
\* reads (the workload reads secret.metadata.name, the ingress
\* service.metadata.name); the secret names its namespace by a string
CreateDeploymentProgram(config) ==
    LET slug == config.projectSlug
        resource(urn, kind, name, spec, protect, dependsOn) ==
            [urn |-> <<urn, slug>>, kind |-> kind, name |-> name, spec |-> spec,
             protect |-> protect, dependsOn |-> { <<d, slug>> : d \in dependsOn }]
    IN <<resource("ns-", "Namespace", <<"autotunchi">>, <<>>, TRUE, {})>>
       \o (IF HasEnvVars(config)
           THEN <<resource("secret-", "Secret", <<slug, "-env">>, config.envVars, FALSE, {})>>
           ELSE <<>>)
       \o <<resource("deployment-", "Deployment", <<slug>>,
                     <<config.imageTag, IF HasEnvVars(config) THEN "envFrom" ELSE "">>, FALSE,
                     {"ns-"} \cup (IF HasEnvVars(config) THEN {"secret-"} ELSE {})),
            resource("service-", "Service", <<slug>>, <<>>, FALSE, {"deployment-"}),
            resource("ingress-", "Ingress", <<slug>>,
                     [i \in 1..Len(Hosts(config)) |-> IngressRule(Hosts(config)[i], config)],
                     FALSE, {"service-"})>>

\* the orders in which the engine may take the resources of a program: it
\* runs the operations of resources that do not depend on one another in
\* parallel, so every order that puts a resource after those it depends on
Schedules(program) ==
    LET n == Len(program)
        allowed == { p \in Permutations(1..n) :
                       \A i, j \in 1..n :
                          program[p[i]].urn \in program[p[j]].dependsOn => i < j }
    IN { [i \in 1..n |-> program[p[i]]] : p \in allowed }

\* the cluster has the namespace the objects of a program are put in
HasNamespace(objects) ==
    \E o \in objects : o.kind = "Namespace" /\ o.name = <<"autotunchi">>

\* the cluster object of a resource
ObjectOf(r) == [kind |-> r.kind, name |-> r.name, spec |-> r.spec]

SameObject(o, r) == o.kind = r.kind /\ o.name = r.name

\* (mutant) every run starts from an empty stack
CreateOrSelectStack_Empty(all, name) == {}

\* LocalWorkspace.createOrSelectStack: the recorded resources of the stack
\* of that name, none for a stack that is created
CreateOrSelectStack(all, name) == IF name \in DOMAIN all THEN all[name] ELSE {}

\* stack.up from the i-th resource of the schedule on: a resource recorded with the
\* same inputs is left alone, one recorded with other inputs is updated,
\* one not recorded is created; creating an object that is in the cluster
\* already replaces it or fails, as the provider is configured (upsert);
\* budget is the number of API calls that still succeed.  After the last
\* resource, what is recorded but no longer declared is deleted.
RECURSIVE Up(_, _, _, _, _, _)
Up(declared, i, state, objects, budget, upsert) ==
    IF i > Len(declared)
    THEN LET urns == { declared[k].urn : k \in 1..Len(declared) }
             stale == { r \in state : r.urn \notin urns }
         IN IF stale = {}
            THEN [state |-> state, cluster |-> objects, success |-> TRUE, ops |-> <<>>]
            ELSE IF budget = 0 \/ \E r \in stale : r.protect
            THEN [state |-> state, cluster |-> objects, success |-> FALSE,
                  ops |-> <<"delete failed">>]
            ELSE [state |-> state \ stale,
                  cluster |-> { o \in objects : \A r \in stale : ~SameObject(o, r) },
                  success |-> TRUE, ops |-> <<"delete">>]
    ELSE LET d == declared[i]
             recorded == { r \in state : r.urn = d.urn }
             inCluster == { o \in objects : SameObject(o, d) }
             failed(op) == [state |-> state, cluster |-> objects, success |-> FALSE,
                            ops |-> <<op>>]
             rest == Up(declared, i + 1, (state \ recorded) \cup {d},
                        (objects \ inCluster) \cup {ObjectOf(d)}, budget - 1, upsert)
             after(op) == [rest EXCEPT !.ops = <<op>> \o @]
         IN IF d \in recorded
            THEN LET same == Up(declared, i + 1, state, objects, budget, upsert)
                 IN [same EXCEPT !.ops = <<"same">> \o @]
            ELSE IF recorded # {}
            THEN IF budget = 0 THEN failed("update failed") ELSE after("update")
            ELSE IF \/ budget = 0
                    \/ inCluster # {} /\ ~upsert
                    \/ d.kind # "Namespace" /\ ~HasNamespace(objects)
            THEN failed("create failed")
            ELSE after("create")

\* the slot of a call of deployProject or destroyProject and its result
Provisioned(op, config, schedule, run) ==
    [op |-> op, pc |-> "done", config |-> config,
     schedule |-> [i \in 1..Len(schedule) |-> schedule[i].kind], ops |-> run.ops,
     outcome |-> [success |-> run.success]]

SetStack(all, name, state) ==
    [n \in DOMAIN all \cup {name} |-> IF n = name THEN state ELSE all[n]]

\* deployProject: createOrSelectStack, setConfig, up; whatever throws is
\* returned as { success: false, error }
DeployProjectCall(config, schedule, budget, upsert, backendUp) ==
    LET name == GetStackName(config.projectSlug)
        run == Up(schedule, 1, CreateOrSelectStack(stacks, name), cluster, budget, upsert)
        unreachable == [state |-> {}, cluster |-> cluster, success |-> FALSE, ops |-> <<>>]
    IN /\ IF backendUp
          THEN /\ stacks' = SetStack(stacks, name, run.state)
               /\ cluster' = run.cluster
          ELSE UNCHANGED <<stacks, cluster>>
       /\ request' = [request EXCEPT ![1] =
             Provisioned("deployProject", config, schedule,
                         IF backendUp THEN run ELSE unreachable)]
       /\ UNCHANGED <<deployments, worker, audit, projects, call, zone>>

\* the order in which destroy deletes: dependents first
DestroyRank(kind) ==
    CASE kind = "Ingress" -> 1 [] kind = "Service" -> 2 [] kind = "Deployment" -> 3
      [] kind = "Secret" -> 4 [] kind = "Namespace" -> 5

\* stack.destroy without excludeProtected: with a protected resource in the
\* stack the engine ends in an error; how many of the resources that come
\* before it in the order of deletion it has deleted by then is not fixed
\* (progress).  Without one, everything is deleted.
Destroy(state, objects, progress) ==
    LET protected == { r \in state : r.protect }
        deleted == IF protected = {} THEN state
                   ELSE { r \in state : /\ DestroyRank(r.kind) <= progress
                                        /\ \A x \in protected :
                                              DestroyRank(r.kind) < DestroyRank(x.kind) }
    IN [state |-> state \ deleted,
        cluster |-> { o \in objects : \A r \in deleted : ~SameObject(o, r) },
        success |-> protected = {},
        ops |-> IF protected = {} THEN <<"destroy">> ELSE <<"destroy failed">>]

\* destroyProject: selectStack (throws for a stack that does not exist),
\* destroy, then removeStack; whatever throws is returned as
\* { success: false, error } and what follows it is not run
DestroyProjectCall(projectSlug, progress, backendUp) ==
    LET name == GetStackName(projectSlug)
        none == [state |-> {}, cluster |-> cluster, success |-> FALSE, ops |-> <<>>]
    IN IF backendUp /\ name \in DOMAIN stacks
       THEN LET run == Destroy(stacks[name], cluster, progress) IN
            /\ stacks' = IF run.success
                         THEN [n \in DOMAIN stacks \ {name} |-> stacks[n]]
                         ELSE SetStack(stacks, name, run.state)
            /\ cluster' = run.cluster
            /\ request' = [request EXCEPT ![1] =
                  Provisioned("destroyProject", [projectSlug |-> projectSlug], <<>>, run)]
            /\ UNCHANGED <<deployments, worker, audit, projects, call, zone>>
       ELSE /\ request' = [request EXCEPT ![1] =
                  Provisioned("destroyProject", [projectSlug |-> projectSlug], <<>>, none)]
            /\ UNCHANGED <<deployments, worker, audit, projects, call, stacks, cluster, zone>>

ProvisionNext ==
    \/ \E config \in DeploymentConfigs, a \in Answers :
          \E schedule \in Schedules(CreateDeploymentProgram(config)) :
             DeployProjectCall(config, schedule, a.budget, a.upsert, a.backendUp)
    \/ \E projectSlug \in {"app1", "app2"}, progress \in 0..4, backendUp \in BOOLEAN :
          DestroyProjectCall(projectSlug, progress, backendUp)

ProvisionSpec == Init /\ [][ProvisionNext]_vars

\* the configurations createDeploymentProgram is called with: the custom
\* domain is undefined, empty, a domain of the customer, or the host the
\* platform gives the project
ProgramConfigs ==
    [projectSlug : {"app1"}, imageTag : {"registry/app:1"},
     envVars : {{}, {"API_KEY"}}, subdomain : {"app"}, platformDomain : {PlatformDomain},
     customDomain : {NULLSEQ, <<>>, CustomDomain, <<"app", ".", PlatformDomain>>}]

\* a call of createDeploymentProgram and the resources the program declares
ProgramCall(config) ==
    /\ request' = [request EXCEPT ![1] =
          [op |-> "createDeploymentProgram", pc |-> "done", config |-> config,
           outcome |-> CreateDeploymentProgram(config)]]
    /\ UNCHANGED <<deployments, worker, audit>>
    /\ UNCHANGED platform

FunctionNext ==
    \/ \E n \in Quantities, unit \in Units : ResourceCall(ToDigits(n) \o unit)
    \/ \E value \in OtherValues : ResourceCall(value)
    \/ \E ref \in Refs : ExtractCall(ref)
    \/ \E config \in ProgramConfigs : ProgramCall(config)
    \/ \E body \in ParsePayloads : ParseCall(body)
    \/ \E secret \in VerifySecrets, payload \in VerifyPayloads :
          \E mutation \in Mutations(secret, payload) : VerifyCall(secret, payload, mutation)
    \/ \E secret \in VerifySecrets, payload \in VerifyPayloads :
          \E signature \in VerifyHeaders(secret, payload) :
             VerifyHeaderCall(secret, payload, signature)

FunctionSpec == Init /\ [][FunctionNext]_vars

-----------------------------------------------------------------------------
(* The projects router (create, update, list, get) and deployments.get:
   every query of a handler is one step *)

\* the rows the projects table can hold
MaxProjects == 3

\* the ids and webhook secrets (randomUUID, randomBytes(32)) of the rows that
\* are inserted, by their place in the table
NewProjectIds == <<"p1", "p2", "p3", "p4", "p5">>

NewSecrets == << <<171>>, <<18>>, <<52>>, <<86>>, <<120>> >>

UpperCase == <<"A", "B", "M", "P", "Y">>

LowerCase == <<"a", "b", "m", "p", "y">>

\* toLowerCase of a character
ToLowerCase(c) ==
    IF \E i \in 1..Len(UpperCase) : UpperCase[i] = c
    THEN LowerCase[CHOOSE i \in 1..Len(UpperCase) : UpperCase[i] = c]
    ELSE c

\* [a-z0-9]
IsSlugCharacter(c) == IsDigit(c) \/ \E i \in 1..Len(LowerCase) : LowerCase[i] = c

\* replace(/[^a-z0-9]+/g, "-"): every run of other characters becomes one "-"
RECURSIVE ReplaceRuns(_, _)
ReplaceRuns(s, inRun) ==
    IF s = <<>> THEN <<>>
    ELSE IF IsSlugCharacter(Head(s)) THEN <<Head(s)>> \o ReplaceRuns(Tail(s), FALSE)
    ELSE IF inRun THEN ReplaceRuns(Tail(s), TRUE)
    ELSE <<"-">> \o ReplaceRuns(Tail(s), TRUE)

\* replace(/^-|-$/g, ""): a "-" at the start and one at the end are removed
TrimDashes(s) ==
    LET first == IF s # <<>> /\ Head(s) = "-" THEN Tail(s) ELSE s
    IN IF first # <<>> /\ first[Len(first)] = "-" THEN SliceLast(first) ELSE first

\* generateSlug
GenerateSlug(name) ==
    TrimDashes(ReplaceRuns([i \in 1..Len(name) |-> ToLowerCase(name[i])], FALSE))

\* the names projects are created with: the slug of the second is the one
\* the suffix loop gives a second project of the first name
ProjectNames == { <<"A", "p", "p", "!">>, <<"a", "p", "p", " ", "1">> }

\* randomBytes(4).toString("hex")
RandomHex == { <<"0", "a", "1", "b", "2", "c", "3", "d">> }

\* the response of a call: the tRPC result, the project rows and the
\* deployment rows its body holds
Response(status, projectRows, deploymentRows) ==
    [status |-> status, projects |-> projectRows, deployments |-> deploymentRows]

\* a call that has returned
Returned(op, user, response) ==
    [op |-> op, pc |-> "done", user |-> user, response |-> response]

CallStep(c, slot) ==
    /\ call' = [call EXCEPT ![c] = slot]
    /\ UNCHANGED <<deployments, worker, request, audit, stacks, cluster, zone>>

Free(c) == call[c].pc \in {"idle", "done"}

Calling(c, op, pc) == call[c].op = op /\ call[c].pc = pc

ProjectRows == { projects[i] : i \in 1..Len(projects) }

\* projects.create, up to the first query: the token check, generateSlug
CreateStart(c, user, name, token) ==
    /\ Free(c)
    /\ IF token = NULL
       THEN /\ CallStep(c, Returned("create", user, Response("UNAUTHORIZED", {}, {})))
            /\ UNCHANGED projects
       ELSE /\ CallStep(c, [op |-> "create", pc |-> "slug", user |-> user, name |-> name,
                            slug |-> GenerateSlug(name), suffix |-> 0, subdomain |-> <<>>,
                            project |-> <<>>])
            /\ UNCHANGED projects

\* one turn of the slug loop: findFirst on the slug
CreateFindSlug(c) ==
    /\ Calling(c, "create", "slug")
    /\ IF { row \in ProjectRows : row.slug = call[c].slug } # {}
       THEN /\ call[c].suffix < MaxProjects
            /\ CallStep(c, [call[c] EXCEPT
                  !.suffix = @ + 1,
                  !.slug = GenerateSlug(call[c].name) \o <<"-">> \o ToDigits(call[c].suffix + 1)])
       ELSE CallStep(c, [call[c] EXCEPT !.pc = "subdomain", !.subdomain = call[c].slug])
    /\ UNCHANGED projects

\* one turn of the subdomain loop: findFirst on the subdomain
CreateFindSubdomain(c) ==
    /\ Calling(c, "create", "subdomain")
    /\ IF { row \in ProjectRows : row.subdomain = call[c].subdomain } # {}
       THEN \E hex \in RandomHex :
               CallStep(c, [call[c] EXCEPT !.subdomain = call[c].slug \o <<"-">> \o hex])
       ELSE CallStep(c, [call[c] EXCEPT !.pc = "insert"])
    /\ UNCHANGED projects

\* the row that create inserts
NewProject(slot) ==
    [id |-> NewProjectIds[Len(projects) + 1], name |-> slot.name, slug |-> slot.slug,
     subdomain |-> slot.subdomain, port |-> 3000, webhookId |-> NULL,
     webhookSecret |-> NewSecrets[Len(projects) + 1], userId |-> slot.user]

\* (mutant) slug and subdomain are not unique columns
CreateInsert_NoUnique(c) ==
    /\ Calling(c, "create", "insert")
    /\ Len(projects) < MaxProjects
    /\ projects' = Append(projects, NewProject(call[c]))
    /\ CallStep(c, [call[c] EXCEPT !.pc = "webhook", !.project = <<NewProject(call[c])>>])

\* db.insert(projects).values(..).returning(): the unique constraints on
\* slug and subdomain make the insert throw for a value that is taken
CreateInsert(c) ==
    /\ Calling(c, "create", "insert")
    /\ IF { row \in ProjectRows : \/ row.slug = call[c].slug
                                  \/ row.subdomain = call[c].subdomain } # {}
       THEN /\ CallStep(c, Returned("create", call[c].user,
                                    Response("INTERNAL_SERVER_ERROR", {}, {})))
            /\ UNCHANGED projects
       ELSE /\ Len(projects) < MaxProjects
            /\ projects' = Append(projects, NewProject(call[c]))
            /\ CallStep(c, [call[c] EXCEPT !.pc = "webhook",
                                           !.project = <<NewProject(call[c])>>])

\* createWebhook and the update of webhookId, or the failure that is only
\* logged; create returns the row as it was inserted
CreateWebhook(c) ==
    /\ Calling(c, "create", "webhook")
    /\ LET project == call[c].project[1]
           i == CHOOSE k \in 1..Len(projects) : projects[k].id = project.id
       IN \/ projects' = [projects EXCEPT ![i].webhookId = "hook"]
          \/ UNCHANGED projects
    /\ CallStep(c, Returned("create", call[c].user,
                            Response("ok", {call[c].project[1]}, {})))

\* what an update can set: zod keeps the declared keys only, slug and
\* subdomain are not among them
UpdateData == { [name |-> <<"B">>, port |-> 8080] }

\* projects.update: findFirst on id and userId
UpdateFind(c, user, id, data) ==
    /\ Free(c)
    /\ IF { row \in ProjectRows : row.id = id /\ row.userId = user } = {}
       THEN CallStep(c, Returned("update", user, Response("NOT_FOUND", {}, {})))
       ELSE CallStep(c, [op |-> "update", pc |-> "write", user |-> user, id |-> id,
                         data |-> data])
    /\ UNCHANGED projects

\* db.update(projects).set({ ...data, updatedAt }).where(id).returning()
UpdateWrite(c) ==
    /\ Calling(c, "update", "write")
    /\ LET i == CHOOSE k \in 1..Len(projects) : projects[k].id = call[c].id
           updated == [f \in DOMAIN projects[i] |->
                          IF f \in DOMAIN call[c].data THEN call[c].data[f]
                          ELSE projects[i][f]]
       IN /\ projects' = [projects EXCEPT ![i] = updated]
          /\ CallStep(c, Returned("update", call[c].user, Response("ok", {updated}, {})))

\* the deployments of a project, as a relation of a response
DeploymentsOf(projectId) ==
    { deployments[d] : d \in { k \in 1..Len(deployments) :
                                  deployments[k].projectId = projectId } }

\* projects.list: findMany on userId, with the deployments
ProjectsList(c, user) ==
    /\ Free(c)
    /\ LET rows == { row \in ProjectRows : row.userId = user }
       IN CallStep(c, Returned("list", user,
             Response("ok", rows, UNION { DeploymentsOf(row.id) : row \in rows })))
    /\ UNCHANGED projects

\* projects.get: findFirst on id and userId, with the deployments
ProjectsGet(c, user, id) ==
    /\ Free(c)
    /\ LET rows == { row \in ProjectRows : row.id = id /\ row.userId = user }
       IN IF rows = {}
          THEN CallStep(c, Returned("get", user, Response("NOT_FOUND", {}, {})))
          ELSE CallStep(c, Returned("get", user, Response("ok", rows, DeploymentsOf(id))))
    /\ UNCHANGED projects

\* deployments.get: findFirst on the id with { project: true }
DeploymentsGet(c, user, id) ==
    /\ Free(c)
    /\ LET project == { row \in ProjectRows : id \in 1..Len(deployments)
                                              /\ row.id = deployments[id].projectId }
       IN IF id \notin 1..Len(deployments) \/ \A row \in project : row.userId # user
          THEN CallStep(c, Returned("deployments.get", user, Response("NOT_FOUND", {}, {})))
          ELSE CallStep(c, Returned("deployments.get", user,
                                    Response("ok", project, {deployments[id]})))
    /\ UNCHANGED projects

\* the GitHub token of a user: u2 has connected no account
TokenOf(user) == IF user = "u1" THEN "gh-token" ELSE NULL

\* Every caller creates projects, so that two creations interleave; the
\* other calls are made by the first caller.
ProjectsNext ==
    \/ \E c \in Callers :
          \/ \E user \in Users, name \in ProjectNames :
                CreateStart(c, user, name, TokenOf(user))
          \/ CreateFindSlug(c)
          \/ CreateFindSubdomain(c)
          \/ CreateInsert(c)
          \/ CreateWebhook(c)
    \/ \E user \in Users, id \in {"p1", "p2"}, data \in UpdateData :
          UpdateFind(1, user, id, data)
    \/ UpdateWrite(1)
    \/ \E user \in Users : ProjectsList(1, user)
    \/ \E user \in Users, id \in {"p1", "p9"} : ProjectsGet(1, user, id)
    \/ \E user \in Users, id \in 1..MaxDeployments : DeploymentsGet(1, user, id)
    \/ TriggerDeploy("u1", "p1", "gh-token", SomeCommit, <<"message of 501 characters">>)
    \/ WebhookPost("push", PushText, SignatureHeader(<<171>>, PushText))

ProjectsSpec == Init /\ [][ProjectsNext]_vars

-----------------------------------------------------------------------------
(* CloudflareClient.upsertDnsRecord: the listing and the write are two
   requests to the API, so that the calls of two clients interleave between
   them; the zone is also written by other clients of the API *)

\* the records a zone holds at most
MaxRecords == 3

RecordTypes == {"A", "AAAA"}

RecordNames == {"app.apps.example.com", "shop.example.org"}

RecordContents == {"10.0.0.1", "10.0.0.2"}

\* the body createDnsRecord and updateDnsRecord send: ttl is 1
RecordBody(type, name, content, proxied) ==
    [type |-> type, name |-> name, content |-> content, proxied |-> proxied, ttl |-> 1]

\* the record the API stores for a body
StoredRecord(id, body) ==
    [id |-> id, type |-> body.type, name |-> body.name, content |-> body.content,
     proxied |-> body.proxied, ttl |-> body.ttl]

\* the default value of the parameter: proxied = true
ProxiedOrDefault(proxied) == IF proxied = "undefined" THEN TRUE ELSE proxied

\* listDnsRecords(name): the records of that name, in the order of the zone
ListDnsRecords(name) ==
    LET named(r) == r.name = name
    IN SelectSeq(zone, named)

\* (mutant) the record is looked up by its name only
FindRecord_ByName(existing, type, name) ==
    LET found == { i \in 1..Len(existing) : existing[i].name = name }
    IN IF found = {} THEN {}
       ELSE { existing[CHOOSE i \in found : \A j \in found : i <= j] }

\* existing.find((r) => r.type === type && r.name === name): the first
\* match, as a set of at most one record
FindRecord(existing, type, name) ==
    LET found == { i \in 1..Len(existing) :
                      existing[i].type = type /\ existing[i].name = name }
    IN IF found = {} THEN {}
       ELSE { existing[CHOOSE i \in found : \A j \in found : i <= j] }

\* the API refuses a record that is identical to one of the zone
IsIdentical(r, body) ==
    r.type = body.type /\ r.name = body.name /\ r.content = body.content

DnsStep(c, slot) ==
    /\ call' = [call EXCEPT ![c] = slot]
    /\ UNCHANGED <<deployments, worker, request, audit, projects, stacks, cluster>>

\* the end of a call of upsertDnsRecord: the request it has sent last and
\* whether that request threw
Upserted(slot, sent, id, threw) ==
    [slot EXCEPT !.pc = "done", !.sent = sent, !.id = id, !.threw = threw]

\* upsertDnsRecord, up to the answer of listDnsRecords(name); the request
\* may fail (request throws unless the API answers success)
UpsertList(c, type, name, content, proxied) ==
    /\ call[c].pc \in {"idle", "done"}
    /\ LET slot == [op |-> "upsertDnsRecord", pc |-> "listed", type |-> type,
                    name |-> name, content |-> content,
                    proxied |-> ProxiedOrDefault(proxied),
                    existing |-> ListDnsRecords(name), sent |-> "GET", id |-> 0,
                    threw |-> FALSE]
       IN \/ DnsStep(c, slot)
          \/ DnsStep(c, Upserted([slot EXCEPT !.existing = <<>>], "GET", 0, TRUE))
    /\ UNCHANGED zone

\* updateDnsRecord(record.id, ...): PUT of the body on the record of that id
UpdateDnsRecord(c, id, body) ==
    \/ /\ zone' = [i \in 1..Len(zone) |->
                      IF zone[i].id = id THEN StoredRecord(id, body) ELSE zone[i]]
       /\ DnsStep(c, Upserted(call[c], "PUT", id, FALSE))
    \/ /\ UNCHANGED zone
       /\ DnsStep(c, Upserted(call[c], "PUT", id, TRUE))

\* createDnsRecord: POST of the body; the API gives the record a new id,
\* and refuses an identical record and a record beyond what the zone holds
CreateDnsRecord(c, body) ==
    \/ /\ Len(zone) < MaxRecords
       /\ \A i \in 1..Len(zone) : ~IsIdentical(zone[i], body)
       /\ zone' = Append(zone, StoredRecord(Len(zone) + 1, body))
       /\ DnsStep(c, Upserted(call[c], "POST", Len(zone) + 1, FALSE))
    \/ /\ UNCHANGED zone
       /\ DnsStep(c, Upserted(call[c], "POST", 0, TRUE))

\* upsertDnsRecord from the answer of the listing on: the first record of
\* that type and name is updated, and without one a record is created
UpsertWrite(c) ==
    /\ call[c].op = "upsertDnsRecord" /\ call[c].pc = "listed"
    /\ LET slot == call[c]
           record == FindRecord(slot.existing, slot.type, slot.name)
           body == RecordBody(slot.type, slot.name, slot.content, slot.proxied)
       IN IF record # {}
          THEN \E r \in record : UpdateDnsRecord(c, r.id, body)
          ELSE CreateDnsRecord(c, body)

\* another client of the API creates a record in the zone
OtherClientCreates(type, name, content) ==
    LET body == RecordBody(type, name, content, FALSE)
    IN /\ Len(zone) < MaxRecords
       /\ \A i \in 1..Len(zone) : ~IsIdentical(zone[i], body)
       /\ zone' = Append(zone, StoredRecord(Len(zone) + 1, body))
       /\ UNCHANGED <<deployments, worker, request, audit, projects, call, stacks, cluster>>

DnsNext ==
    \/ \E c \in Callers, content \in RecordContents :
          UpsertList(c, "A", "app.apps.example.com", content, "undefined")
    \/ \E c \in Callers : UpsertWrite(c)
    \/ \E type \in RecordTypes, name \in RecordNames :
          OtherClientCreates(type, name, "10.0.0.2")

DnsSpec == Init /\ [][DnsNext]_vars

-----------------------------------------------------------------------------
(* Properties *)

Terminal == {"live", "failed"}

Cancellable == {"pending", "building"}

\* a processDeployment run is in flight on row d
RunningOn(d) == \E w \in Workers : worker[w].pc # "idle" /\ worker[w].id = d

\* request q takes its first step (read and checks) / its write step
Reads(q) == request[q].pc \in {"idle", "done"} /\ request'[q] # request[q]

Writes(q, op) == request[q].op = op /\ request[q].pc # "done" /\ request'[q].pc = "done"

\* C1: once the persisted status of a row is live or failed, no step of any
\* processDeployment run, cancel or rollback changes it.
C1_TerminalIsFinal ==
    [][\A d \in Ids : deployments[d].status \in Terminal
                         => deployments'[d].status = deployments[d].status]_vars

\* C2: while a single processDeployment run and no cancel has written a row,
\* every change of its persisted status is one of pending->building,
\* building->deploying, building->failed, deploying->live, deploying->failed;
\* so the statuses the run persists are building,failed or
\* building,deploying,failed or building,deploying,live.
C2_SingleRunSequence ==
    [][\A d \in Ids :
          (audit'[d].runs = 1 /\ ~audit'[d].cancelled
              /\ deployments'[d].status # deployments[d].status)
          => <<deployments[d].status, deployments'[d].status>> \in
                { <<"pending", "building">>, <<"building", "deploying">>,
                  <<"building", "failed">>, <<"deploying", "live">>,
                  <<"deploying", "failed">> }]_vars

\* a single run, no cancel, has taken a row to live and has returned
C2_Witness ==
    \E d \in Ids : /\ audit[d].runs = 1 /\ ~audit[d].cancelled /\ ~RunningOn(d)
                   /\ deployments[d].status = "live"

\* C3: the write of a cancel request is applied only to a row whose status,
\* at the moment of the write, is pending or building.
C3_CancelWritesOnlyCancellable ==
    [][\A q \in Requests :
          Writes(q, "cancel") => deployments[request[q].id].status \in Cancellable]_vars

\* C4: a cancel by the owner that reads a row in pending or building is not
\* rejected, and its write answers ok and leaves the row with status failed,
\* error "Cancelled by user" and finishedAt set, every other column as it was.
C4_CancelSucceeds ==
    [][\A q \in Requests :
          /\ \A id \in Ids :
                (CancelRead(q, OwnerOf(id), id) /\ deployments[id].status \in Cancellable)
                => request'[q].pc = "write" /\ request'[q].id = id
          /\ Writes(q, "cancel")
                => /\ request'[q].outcome = "ok"
                   /\ deployments' = [deployments EXCEPT ![request[q].id] =
                         [@ EXCEPT !.status = "failed", !.error = "Cancelled by user",
                                   !.finishedAt = Now]]
                   /\ deployments'[request[q].id].finishedAt # NULL]_vars

\* a cancel has answered ok and the row it wrote shows it
C4_Witness ==
    /\ \E q \in Requests : request[q] = Answered("cancel", "ok")
    /\ \E d \in Ids : /\ deployments[d].status = "failed"
                      /\ deployments[d].error = "Cancelled by user"
                      /\ deployments[d].finishedAt # NULL

\* C5: a cancel by the owner that reads a row in deploying, live or failed
\* answers BAD_REQUEST and changes no column of any row.
C5_CancelRejected ==
    [][\A q \in Requests, id \in Ids :
          (CancelRead(q, OwnerOf(id), id) /\ deployments[id].status \notin Cancellable)
          => request'[q] = Answered("cancel", "BAD_REQUEST") /\ deployments' = deployments]_vars

\* a cancel has been rejected, and rows past building exist
C5_Witness ==
    /\ \E q \in Requests : request[q] = Answered("cancel", "BAD_REQUEST")
    /\ \E d \in Ids : deployments[d].status \in {"deploying", "live", "failed"}

\* C6: for a row inserted by rollback (pending, imageTag set) the Image
\* Builder is never invoked and status building is never persisted.
C6_RollbackSkipsBuild ==
    \A d \in Ids : audit[d].rollback
                      => ~audit[d].builderCalled /\ deployments[d].status # "building"

\* C7: a rollback by the owner that reads a live row with an image goes on to
\* its insert, and the insert adds exactly one row: pending, with the project,
\* the commit and the image of the source row, leaving every row there was
\* unchanged.
C7_RollbackCreates ==
    [][\A q \in Requests :
          /\ \A id \in Ids :
                (RollbackRead(q, OwnerOf(id), id) /\ deployments[id].status = "live"
                    /\ deployments[id].imageTag \notin {NULLSEQ, <<>>})
                => request'[q].pc = "insert" /\ request'[q].id = id
          /\ Writes(q, "rollback")
                => /\ request'[q].outcome = "ok"
                   /\ Len(deployments') = Len(deployments) + 1
                   /\ \A d \in Ids : deployments'[d] = deployments[d]
                   /\ LET new == deployments'[Len(deployments')]
                          source == deployments[request[q].id]
                      IN /\ new.status = "pending"
                         /\ new.projectId = source.projectId
                         /\ new.commitSha = source.commitSha
                         /\ new.imageTag = source.imageTag
                         /\ new.imageTag \notin {NULLSEQ, <<>>}]_vars

\* a rollback has answered ok and its row is in the table
C7_Witness ==
    /\ \E q \in Requests : request[q] = Answered("rollback", "ok")
    /\ \E d \in Ids : audit[d].rollback /\ deployments[d].imageTag # NULLSEQ

\* C8: a rollback by the owner that reads a row that is not live, or has no
\* image, answers BAD_REQUEST, inserts no row and changes none.
C8_RollbackRejected ==
    [][\A q \in Requests, id \in Ids :
          (RollbackRead(q, OwnerOf(id), id)
              /\ (deployments[id].status # "live"
                     \/ deployments[id].imageTag \in {NULLSEQ, <<>>}))
          => request'[q] = Answered("rollback", "BAD_REQUEST") /\ deployments' = deployments]_vars

\* a rollback has been rejected on a table that holds a row
C8_Witness ==
    /\ \E q \in Requests : request[q] = Answered("rollback", "BAD_REQUEST")
    /\ Ids # {}

\* a run holds a successful build result of row d that it has not yet
\* persisted (it is between the builder's return and its deploying write)
BuildBeingPersisted(d) ==
    \E w \in Workers : /\ worker[w].id = d /\ worker[w].pc \in {"logs", "deploying"}
                       /\ worker[w].buildResult.success

\* C9 as claimed: for every row, also one inserted by rollback, imageTag is
\* non-null if and only if the Image Builder has returned success for that
\* row (and the run has persisted it).
C9_ImageIffBuilt ==
    \A d \in Ids : ~BuildBeingPersisted(d)
                      => (deployments[d].imageTag # NULLSEQ <=> audit[d].buildSucceeded)

\* C9 as amended: for every row inserted by the webhook or the manual trigger,
\* imageTag is non-null if and only if the Image Builder has returned success
\* for that row (and the run has persisted it); a row inserted by rollback has
\* its imageTag from its insertion on, without a build.
C9_ImageIffBuiltOrRollback ==
    \A d \in Ids :
        IF audit[d].rollback
        THEN deployments[d].imageTag # NULLSEQ
        ELSE /\ deployments[d].imageTag # NULLSEQ => audit[d].buildSucceeded
             /\ (audit[d].buildSucceeded /\ ~BuildBeingPersisted(d))
                   => deployments[d].imageTag # NULLSEQ

\* a row whose build succeeded and was persisted, and a rollback row that
\* no run has touched
C9_Witness ==
    /\ \E d \in Ids : /\ ~audit[d].rollback /\ audit[d].buildSucceeded
                      /\ deployments[d].imageTag # NULLSEQ
    /\ \E d \in Ids : /\ audit[d].rollback /\ audit[d].runs = 0
                      /\ deployments[d].imageTag # NULLSEQ

\* C10: no state shows a row with status deploying or live and imageTag
\* null: the deploying write sets both in one statement.
C10_DeployingHasImage ==
    \A d \in Ids : deployments[d].status \in {"deploying", "live"}
                      => deployments[d].imageTag # NULLSEQ

\* a pushed row just after its run's deploying write
C10_Witness ==
    \E d \in Ids : /\ ~audit[d].rollback /\ deployments[d].status = "deploying"
                   /\ deployments[d].imageTag # NULLSEQ
                   /\ \E w \in Workers : worker[w].id = d /\ worker[w].pc = "provision"

\* the run of worker w holds a build result that reports failure / success
BuildFailed(w) == worker[w].buildResult.logs = "transcript failed"

\* run w returns in this step
Returns(w) == worker[w].pc # "idle" /\ worker'[w].pc = "idle"

\* C11: a run whose Image Builder call returned success=false never reaches
\* the Infrastructure Provisioner or the DNS Publisher, and when it returns
\* the row has status failed, a non-empty error and finishedAt set; on a row
\* inserted by a push or the manual trigger and run only this once, imageTag
\* is null.
C11_BuildFailureEndsFailed ==
    [][\A w \in Workers :
          /\ worker'[w].buildResult.logs = "transcript failed"
                => worker'[w].pc \in {"logs", "catch", "idle"}
          /\ (BuildFailed(w) /\ Returns(w))
                => LET d == worker[w].id IN
                   /\ deployments'[d].status = "failed"
                   /\ deployments'[d].error \notin {NULL, ""}
                   /\ deployments'[d].finishedAt # NULL
                   /\ audit'[d].resources = audit[d].resources
                   /\ (~audit[d].rollback /\ audit[d].runs = 1)
                         => deployments'[d].imageTag = NULLSEQ]_vars

\* a pushed row whose only run has returned after a failed build
C11_Witness ==
    \E d \in Ids : /\ ~audit[d].rollback /\ audit[d].runs = 1 /\ ~RunningOn(d)
                   /\ audit[d].builderCalled /\ ~audit[d].buildSucceeded
                   /\ deployments[d].buildLogs = "transcript failed"
                   /\ deployments[d].status = "failed"
                   /\ deployments[d].error = "Build failed"
                   /\ deployments[d].imageTag = NULLSEQ
                   /\ deployments[d].finishedAt # NULL
                   /\ audit[d].resources = "none"

\* C12: once the build and the provisioning of a run have succeeded, the run
\* writes status live and finishedAt whatever the DNS block did: a throw of
\* setupProjectDns (subdomain or custom domain) changes no row, leads to no
\* failed write and leaves the error column as it was.
C12_DnsIsBestEffort ==
    [][\A w \in Workers :
          /\ (worker[w].pc = "dns" /\ worker'[w] # worker[w])
                => worker'[w].pc = "live" /\ deployments' = deployments
          /\ (worker[w].pc = "live" /\ worker'[w] # worker[w])
                => LET d == worker[w].id IN
                   /\ Returns(w)
                   /\ deployments' = [deployments EXCEPT ![d] =
                         [@ EXCEPT !.status = "live", !.finishedAt = Now]]
                   /\ deployments'[d].finishedAt # NULL
                   /\ deployments'[d].error = deployments[d].error]_vars

\* a run whose DNS call has thrown is at its live write, the row unharmed
C12_Witness ==
    \E w \in Workers : /\ worker[w].pc = "live"
                       /\ worker[w].dnsError \in {"subdomain throws", "custom domain throws"}
                       /\ worker[w].buildResult.success
                       /\ deployments[worker[w].id].status = "deploying"
                       /\ deployments[worker[w].id].error = NULL

\* run w has caught the failure result of deployProject
ProvisionFailed(w) == worker[w].pc = "catch" /\ worker[w].errorMessage = "stack up failed"

\* C13: when deployProject returns success=false the run goes straight to its
\* catch block (the DNS block is not entered), and the catch block writes
\* status failed, the provisioner's message as error and finishedAt, keeps
\* the imageTag that was persisted and leaves the cluster resources as the
\* provisioner left them.
C13_ProvisionFailureEndsFailed ==
    [][\A w \in Workers :
          /\ (worker[w].pc = "provision" /\ worker'[w].errorMessage = "stack up failed")
                => /\ worker'[w].pc = "catch"
                   /\ deployments' = deployments
                   /\ audit'[worker[w].id].resources # "none"
          /\ (ProvisionFailed(w) /\ worker'[w] # worker[w])
                => LET d == worker[w].id IN
                   /\ Returns(w)
                   /\ deployments'[d].status = "failed"
                   /\ deployments'[d].error = "stack up failed"
                   /\ deployments'[d].finishedAt # NULL
                   /\ deployments'[d].imageTag = deployments[d].imageTag
                   /\ deployments'[d].imageTag # NULLSEQ
                   /\ audit'[d].resources = audit[d].resources
                   /\ audit'[d].resources # "none"]_vars

\* a pushed row whose only run has returned after a failed provisioning
C13_Witness ==
    \E d \in Ids : /\ ~audit[d].rollback /\ audit[d].runs = 1 /\ ~RunningOn(d)
                   /\ deployments[d].status = "failed"
                   /\ deployments[d].error = "stack up failed"
                   /\ deployments[d].imageTag # NULLSEQ
                   /\ deployments[d].finishedAt # NULL
                   /\ audit[d].resources = "partial"

InFlight == {"building", "deploying"}

\* C14: in every state, every project has at most one row whose status is
\* building or deploying.
C14_OneInFlightPerProject ==
    \A p \in ProjectIds :
        Cardinality({d \in Ids : /\ deployments[d].projectId = p
                                 /\ deployments[d].status \in InFlight}) <= 1

\* the only run on row d, no cancel having written the row
OnlyRun(w) ==
    /\ worker[w].pc # "idle"
    /\ audit[worker[w].id].runs = 1
    /\ ~audit[worker[w].id].cancelled

\* C15: on a row that a single run and no cancel writes, the run is at the
\* Image Builder call (and up to its deploying write) only with status
\* building persisted, and at the Infrastructure Provisioner call (and up to
\* its live write) only with status deploying persisted; so at whatever
\* point the run stops, the row is left pending (before the first write),
\* building or deploying, never live and never failed.
C15_StatusPersistedBeforePhase ==
    \A w \in Workers :
        OnlyRun(w) =>
            LET status == deployments[worker[w].id].status IN
            /\ worker[w].pc = "start" => status = "pending"
            /\ worker[w].pc \in {"token", "build", "logs", "deploying"} => status = "building"
            /\ worker[w].pc \in {"provision", "dns", "live"} => status = "deploying"
            /\ worker[w].pc = "catch" => status \in InFlight
            /\ status \notin Terminal

\* a single run is at the builder call, another at the provisioner call
C15_Witness ==
    /\ \E w \in Workers : OnlyRun(w) /\ worker[w].pc = "build"
                             /\ deployments[worker[w].id].status = "building"
    /\ \E w \in Workers : OnlyRun(w) /\ worker[w].pc = "provision"
                             /\ deployments[worker[w].id].status = "deploying"

TokenMissing(w) ==
    worker[w].pc = "catch" /\ worker[w].errorMessage = "GitHub access token not found"

\* C18: without a source-host token nothing is created or changed: a manual
\* trigger inserts no row and changes none, and a run that finds the token
\* missing has written nothing to its row by then and writes nothing to it
\* afterwards.
C18_TokenMissingWritesNothing ==
    [][/\ \A u \in Users :
             TriggerDeploy(u, "p1", NULL, SomeCommit, <<"message of 501 characters">>)
                => deployments' = deployments
       /\ \A w \in Workers :
             /\ (worker[w].pc = "token" /\ worker'[w].pc = "catch" /\ OnlyRun(w))
                   => deployments[worker[w].id].status = "pending"
             /\ (TokenMissing(w) /\ worker'[w] # worker[w])
                   => deployments' = deployments]_vars

\* a request that reaches the signature check: a push whose body parses to
\* a push event on a branch ref of an existing project's repository and branch
ReachesProject(event, payload) ==
    LET body == JsonParse(payload) IN
    /\ event = "push"
    /\ body.json /\ ParsePushEvent(body) = "event"
    /\ ExtractBranchFromRef(body.ref) # <<>>
    /\ MatchingProjects(body) # {}

SecretFor(payload) == ProjectTable[MatchingProject(JsonParse(payload))].webhookSecret

\* the endpoint is called in this step: the slot shows the call's inputs
WebhookCalled ==
    /\ request'[1].op = "webhook"
    /\ request' # request \/ deployments' # deployments

\* C16: a push for refs/heads/<branch> whose repository and branch match a
\* project, signed with that project's secret, is answered "Deployment
\* triggered" and adds exactly one row: status pending, the project's id,
\* commitSha the payload's after; the rows there were stay as they are.
C16_PushCreatesDeployment ==
    [][LET req == request'[1] IN
       (/\ WebhookCalled
        /\ ReachesProject(req.event, req.payload)
        /\ req.signature = SignatureHeader(SecretFor(req.payload), req.payload))
       => /\ req.outcome = Reply(200, "Deployment triggered")
          /\ Len(deployments') = Len(deployments) + 1
          /\ \A d \in Ids : deployments'[d] = deployments[d]
          /\ LET new == deployments'[Len(deployments')] IN
             /\ new.status = "pending"
             /\ new.projectId = MatchingProject(JsonParse(req.payload))
             /\ ProjectTable[new.projectId].repoFullName = JsonParse(req.payload).repository
             /\ new.commitSha = JsonParse(req.payload).after
             /\ new.commitSha = SomeCommit]_vars

\* a signed push has been answered and its row is in the table
C16_Witness ==
    /\ request[1].op = "webhook"
    /\ request[1].outcome = Reply(200, "Deployment triggered")
    /\ request[1].signature = SignatureHeader(<<171>>, request[1].payload)
    /\ Len(deployments) >= 1
    /\ deployments[Len(deployments)].status = "pending"
    /\ deployments[Len(deployments)].commitSha = JsonParse(request[1].payload).after

MalformedOrNotBranch(payload) ==
    LET body == JsonParse(payload) IN
    \/ ~body.json
    \/ ParsePushEvent(body) # "event"
    \/ ExtractBranchFromRef(body.ref) = <<>>

\* C19: a push whose body is malformed or whose ref is no branch ref is
\* answered with a success status (a benign "ignored" message, no error
\* status), and no row is inserted.
C19_MalformedIsIgnored ==
    [][LET req == request'[1] IN
       (WebhookCalled /\ req.event = "push" /\ MalformedOrNotBranch(req.payload))
       => /\ req.outcome.status = 200
          /\ deployments' = deployments]_vars

\* C20: verifyWebhookSignature is true of a body, the header "sha256=" and
\* the hex HMAC of the body, and the secret; it is false once a single bit of
\* that header or of that body has been flipped.
C20_VerifyRejectsBitFlips ==
    request[1].op = "verifyWebhookSignature"
       => (request[1].outcome <=> request[1].mutation.kind = "none")

\* the header of the call kept in the slot is missing or malformed, or its
\* decoded digest is not the expected digest (in length or in bytes)
HeaderIsWrong ==
    LET req == request[1]
        parts == Split(req.signature, EqualsSign[1])
    IN \/ req.signature = <<>>
       \/ Len(parts) # 2
       \/ parts[1] # Sha256Tag
       \/ BufferFromHex(parts[2]) # Hmac(req.secret, req.payload)

\* C21: verifyWebhookSignature never throws; for a null header, a header
\* whose tag is not sha256, a header that does not split into exactly two
\* parts on "=", and a header whose decoded digest differs in length or in
\* bytes from the expected digest, it returns false.
C21_VerifyNeverThrows ==
    request[1].op = "verifyHeader"
       => /\ request[1].outcome \in {"true", "false"}
          /\ HeaderIsWrong => request[1].outcome = "false"

\* a header whose digest decodes to a buffer of another length than the
\* expected digest has been answered false
C21_Witness ==
    /\ request[1].op = "verifyHeader"
    /\ Len(Split(request[1].signature, EqualsSign[1])) = 2
    /\ Split(request[1].signature, EqualsSign[1])[1] = Sha256Tag
    /\ Len(BufferFromHex(Split(request[1].signature, EqualsSign[1])[2]))
          # Len(Hmac(request[1].secret, request[1].payload))
    /\ request[1].outcome = "false"

\* the decoded payload has ref, after and repository.full_name
HasRequiredFields(body) ==
    /\ body.object
    /\ body.ref # <<>>
    /\ body.after # NULLSEQ
    /\ body.repository \notin {NULL, NoFullName}

\* C22: parsePushEvent returns the canonical event (ref, after,
\* repository.full_name and the head commit's message if there is one) when
\* ref, after and repository.full_name are all present, and returns null,
\* without throwing, when one of them is absent, whatever head_commit and
\* pusher the payload has or lacks.
C22_ParsePushEventTotal ==
    request[1].op = "parsePushEvent"
       => LET body == request[1].payload IN
          IF HasRequiredFields(body)
          THEN request[1].outcome =
                  [kind |-> "event", ref |-> body.ref, after |-> body.after,
                   full_name |-> body.repository, message |-> body.head_commit]
          ELSE request[1].outcome = [kind |-> "null"]

\* the ref is refs/heads/<branch> for a branch name that is not empty (a
\* branch name holds no line terminator)
IsBranchRef(ref) ==
    \E branch \in { SubSeq(ref, k, Len(ref)) : k \in 1..Len(ref) } :
       /\ ref = <<"refs", "heads">> \o branch
       /\ branch # <<"">>
       /\ \A i \in 1..Len(branch) : branch[i] \notin WithLineTerminator

\* C23: extractBranchFromRef returns <branch> for every ref of the form
\* refs/heads/<branch> with a non-empty branch, branch names with "/"
\* included, and null for every other ref (refs/tags/..., refs/heads/ with
\* an empty branch, arbitrary strings).
C23_ExtractBranch ==
    request[1].op = "extractBranchFromRef"
       => IF IsBranchRef(request[1].ref)
          THEN /\ request[1].outcome # <<>>
               /\ <<"refs", "heads">> \o request[1].outcome = request[1].ref
          ELSE request[1].outcome = <<>>

\* a branch name with "/" has been extracted from its ref
C23_Witness ==
    /\ request[1].op = "extractBranchFromRef"
    /\ request[1].ref = <<"refs", "heads", "feature", "x">>
    /\ request[1].outcome = <<"feature", "x">>

\* the call of buildProject in slot q returns in this step
BuildReturns(q) ==
    /\ request[q].op = "buildProject" /\ request[q].pc # "done"
    /\ request'[q].op = "buildProject" /\ request'[q].pc = "done"

TimesRun(slot, tool) == Cardinality({ i \in 1..Len(slot.ran) : slot.ran[i] = tool })

HasRun(slot, tool) == TimesRun(slot, tool) > 0

FollowsDeploy(op) ==
    /\ request[1].op = "deployProject"
    /\ request[1].outcome.success
    /\ request'[1].op = op
    /\ request'[1].config.projectSlug = request[1].config.projectSlug
    /\ <<request, stacks, cluster>>' # <<request, stacks, cluster>>

\* C25: running deployProject a second time with the same desired state,
\* after a run that succeeded, leaves the cluster with the same objects
\* (same names, same specs) and the stack with the same record: the second
\* run creates, updates and deletes nothing; the cluster never holds two
\* objects of one kind and name.
C25_ProvisionIsIdempotent ==
    [][/\ (FollowsDeploy("deployProject") /\ request'[1].config = request[1].config)
             => /\ cluster' = cluster
                /\ stacks' = stacks
                /\ \A i \in 1..Len(request'[1].ops) : request'[1].ops[i] = "same"
       /\ \A a, b \in cluster' : SameObject(a, b) => a = b]_vars

\* a second run with the same desired state has succeeded, the objects of
\* the first run are in the cluster
C25_Witness ==
    /\ request[1].op = "deployProject"
    /\ request[1].outcome.success
    /\ HasEnvVars(request[1].config)
    /\ Len(request[1].ops) = 5
    /\ \A i \in 1..5 : request[1].ops[i] = "same"
    /\ Cardinality(cluster) >= 5

\* C26: destroyProject called after a successful deployProject of the same
\* project returns success, leaves none of the objects that the
\* provisioning recorded in the cluster and removes the stack; the
\* namespace's protect option does not prevent that.
C26_DestroyRemovesAll ==
    [][FollowsDeploy("destroyProject")
          => /\ request'[1].outcome.success
             /\ GetStackName(request[1].config.projectSlug) \notin DOMAIN stacks'
             /\ \A r \in stacks[GetStackName(request[1].config.projectSlug)] :
                   \A o \in cluster' : ~SameObject(o, r)]_vars

\* the value of the call kept in the slot is the number n with this unit
IsQuantity(n, unit) == request[1].value = ToDigits(n) \o unit

\* C29: parseResourceValue maps "<n>m" to n, "<n>Ki", "<n>Mi", "<n>Gi" and
\* "<n>Ti" to n times 1024 to the power 1, 2, 3 and 4, a number n below
\* 1000 without unit to n*1000 and one of 1000 or more to itself, and the
\* empty string to 0.
C29_ParseResourceValue ==
    request[1].op = "parseResourceValue"
       => /\ \A n \in Quantities :
               /\ IsQuantity(n, <<"m">>) => request[1].outcome = Number(n)
               /\ IsQuantity(n, <<"K", "i">>) => request[1].outcome = Scaled(n, 1)
               /\ IsQuantity(n, <<"M", "i">>) => request[1].outcome = Scaled(n, 2)
               /\ IsQuantity(n, <<"G", "i">>) => request[1].outcome = Scaled(n, 3)
               /\ IsQuantity(n, <<"T", "i">>) => request[1].outcome = Scaled(n, 4)
               /\ (IsQuantity(n, <<>>) /\ n < 1000) => request[1].outcome = Number(n * 1000)
               /\ (IsQuantity(n, <<>>) /\ n >= 1000) => request[1].outcome = Number(n)
          /\ request[1].value = <<>> => request[1].outcome = Number(0)

\* "512Mi" has been parsed to 512 * 1024 * 1024 bytes
C29_Witness ==
    /\ request[1].op = "parseResourceValue"
    /\ request[1].value = <<"5", "1", "2", "M", "i">>
    /\ request[1].outcome = Scaled(512, 2)
    /\ request[1].outcome = Number(512 * 1024 * 1024)

\* C27: after a project is created, no response of projects.list,
\* projects.get, projects.update or deployments.get holds the webhookSecret
\* of a project.
C27_SecretNeverExposed ==
    \A c \in Callers :
       (call[c].op \in {"list", "get", "update", "deployments.get"} /\ call[c].pc = "done")
          => \A row \in call[c].response.projects :
                \A i \in 1..Len(projects) : row.webhookSecret # projects[i].webhookSecret

\* no two rows of the table have the same slug or the same subdomain
SlugsUnique(table) ==
    \A i, j \in 1..Len(table) :
       i # j => /\ table[i].slug # table[j].slug
                /\ table[i].subdomain # table[j].subdomain

\* C28: no two projects share a slug and no two share a subdomain, and no
\* step of create, update, triggerDeploy or the webhook changes the slug or
\* the subdomain of a row there is, also when two creations with the same
\* name interleave.
C28_SlugsUniqueAndFixed ==
    [][/\ SlugsUnique(projects)
       /\ SlugsUnique(projects')
       /\ Len(projects') >= Len(projects)
       /\ \A i \in 1..Len(projects) :
             /\ projects'[i].id = projects[i].id
             /\ projects'[i].slug = projects[i].slug
             /\ projects'[i].subdomain = projects[i].subdomain]_vars

\* two creations with the same name have interleaved: one has inserted its
\* row, the other was refused by the unique constraint; and an update has
\* renamed a project
C28_Witness ==
    /\ \E a, b \in Callers :
          /\ call[a].op = "create" /\ call[a].pc = "done"
          /\ call[a].response.status = "ok"
          /\ call[b].op = "create" /\ call[b].pc = "done"
          /\ call[b].response.status = "INTERNAL_SERVER_ERROR"
    /\ \E i \in 1..Len(projects) : projects[i].name = <<"B">> /\ projects[i].slug # <<"b">>

\* the title buildWithDockerfile and buildWithBuildpacks put in front of the
\* output of a command
SectionOf(tool) ==
    CASE tool = "docker login" -> "=== Docker Login ==="
      [] tool = "docker build" -> "=== Docker Build ==="
      [] tool = "docker push"  -> "=== Docker Push ==="
      [] tool = "pack build"   -> "=== Pack Build ==="

IsBuildTool(tool) == tool \in BuildTools

IsSection(line) == line \in { SectionOf(tool) : tool \in BuildTools }

\* C31: the transcript buildProject returns holds, in the order of
\* execution, one titled section for every command that was run (docker
\* login, docker build, docker push, or the buildpacks build), after the
\* title of the download and the line of the strategy, in both strategies
\* and whether the build succeeded or failed.
C31_TranscriptHasSections ==
    \A q \in Requests :
       Building(q, "done") =>
          LET slot == request[q]
              tools == SelectSeq(slot.ran, IsBuildTool)
              sections == SelectSeq(slot.result.logs, IsSection)
          IN /\ slot.failed # "mkdir" => slot.result.logs[1] = "=== Downloading source ==="
             /\ Len(sections) = Len(tools)
             /\ \A i \in 1..Len(tools) : sections[i] = SectionOf(tools[i])

\* the place of a kind of resource in the order namespace, secret, workload,
\* service, ingress
CreationRank(kind) ==
    CASE kind = "Namespace" -> 1 [] kind = "Secret" -> 2 [] kind = "Deployment" -> 3
      [] kind = "Service" -> 4 [] kind = "Ingress" -> 5

\* C32: in every order the engine may choose from the dependencies that the
\* program declares, the resources a deployProject run creates are created
\* in the order namespace, secret (when present), workload, service,
\* ingress: none is created before one that precedes it in this list.
C32_CreationOrder ==
    request[1].op = "deployProject" =>
       LET ops == request[1].ops
           schedule == request[1].schedule
           created == { i \in 1..Len(schedule) : i <= Len(ops) /\ ops[i] = "create" }
       IN \A i, j \in created :
             i < j => CreationRank(schedule[i]) < CreationRank(schedule[j])

\* the rules of the ingress that the program of the call in the slot declares
IngressRules ==
    LET program == request[1].outcome
        i == CHOOSE k \in 1..Len(program) : program[k].kind = "Ingress"
    IN program[i].spec

\* C33 as claimed: the program declares a secret if and only if envVars is
\* not empty, and the ingress has exactly one rule whose host is
\* <subdomain>.<platformDomain> and, when a custom domain is configured,
\* exactly one whose host is the custom domain, every rule routing / to the
\* project's service.
C33_OneRulePerHost ==
    request[1].op = "createDeploymentProgram" =>
       LET config == request[1].config
           program == request[1].outcome
           rules == IngressRules
           rulesFor(host) == { i \in 1..Len(rules) : rules[i].host = host }
       IN /\ (\E k \in 1..Len(program) : program[k].kind = "Secret") <=> config.envVars # {}
          /\ Cardinality(rulesFor(<<config.subdomain, ".", config.platformDomain>>)) = 1
          /\ config.customDomain \notin {NULLSEQ, <<>>}
                => Cardinality(rulesFor(config.customDomain)) = 1
          /\ \A i \in 1..Len(rules) :
                rules[i].path = "/" /\ rules[i].service = <<config.projectSlug>>

\* C33 (amended): the program declares exactly one secret if envVars is not
\* empty and none otherwise, and exactly one ingress, whose rules are one
\* for <subdomain>.<platformDomain> followed, when a custom domain is
\* configured (neither undefined nor empty), by one for the custom domain,
\* also when that is the same host; every rule routes the prefix / to port
\* 80 of the project's service.
C33_SecretAndRules ==
    request[1].op = "createDeploymentProgram" =>
       LET config == request[1].config
           program == request[1].outcome
           rules == IngressRules
           ofKind(kind) == { k \in 1..Len(program) : program[k].kind = kind }
           configured == config.customDomain \notin {NULLSEQ, <<>>}
       IN /\ Cardinality(ofKind("Secret")) = IF config.envVars # {} THEN 1 ELSE 0
          /\ Cardinality(ofKind("Ingress")) = 1
          /\ Len(rules) = IF configured THEN 2 ELSE 1
          /\ rules[1].host = <<config.subdomain, ".", config.platformDomain>>
          /\ configured => rules[2].host = config.customDomain
          /\ \A i \in 1..Len(rules) :
                /\ rules[i].path = "/" /\ rules[i].pathType = "Prefix"
                /\ rules[i].service = <<config.projectSlug>> /\ rules[i].port = 80

\* a program with environment variables and a custom domain: a secret and
\* two rules
C33_Witness ==
    /\ request[1].op = "createDeploymentProgram"
    /\ request[1].config.envVars = {"API_KEY"}
    /\ request[1].config.customDomain = CustomDomain
    /\ \E k \in 1..Len(request[1].outcome) : request[1].outcome[k].kind = "Secret"
    /\ Len(IngressRules) = 2
    /\ IngressRules[2].host = CustomDomain

\* the positions of the records of a type and a name in a list of records
MatchesIn(records, type, name) ==
    { i \in 1..Len(records) : records[i].type = type /\ records[i].name = name }

\* the call of caller c sends its write in this step
UpsertWrites(c) ==
    /\ call[c].op = "upsertDnsRecord" /\ call[c].pc = "listed"
    /\ call'[c].op = "upsertDnsRecord" /\ call'[c].pc = "done"

\* C34: upsertDnsRecord(type, name, content) updates the first listed record
\* of that type and name and creates nothing then, also when several records
\* match; it creates one record only when none matches; what it writes is
\* the content, proxied, with ttl 1, and it writes no other record.  A call
\* whose listing is still what the zone holds (as in a sequence of calls)
\* leaves at most max(1, n) matching records where there were n.
C34_UpsertUpdatesFirstOrCreates ==
    [][\A c \in Callers :
          UpsertWrites(c) =>
             LET slot == call[c]
                 end == call'[c]
                 listed == MatchesIn(slot.existing, slot.type, slot.name)
                 first == CHOOSE i \in listed : \A j \in listed : i <= j
                 written(r) == /\ r.type = slot.type /\ r.name = slot.name
                               /\ r.content = slot.content /\ r.proxied /\ r.ttl = 1
                 before == Cardinality(MatchesIn(zone, slot.type, slot.name))
                 after == Cardinality(MatchesIn(zone', slot.type, slot.name))
             IN /\ listed # {}
                   => /\ end.sent = "PUT" /\ end.id = slot.existing[first].id
                      /\ Len(zone') = Len(zone)
                      /\ \A i \in 1..Len(zone) :
                            IF zone[i].id = end.id /\ ~end.threw
                            THEN written(zone'[i]) /\ zone'[i].id = zone[i].id
                            ELSE zone'[i] = zone[i]
                /\ listed = {}
                   => /\ end.sent = "POST"
                      /\ IF end.threw THEN zone' = zone
                         ELSE /\ Len(zone') = Len(zone) + 1
                              /\ written(zone'[Len(zone')])
                              /\ \A i \in 1..Len(zone) : zone'[i] = zone[i]
                /\ slot.existing = ListDnsRecords(slot.name)
                   => after <= (IF before > 1 THEN before ELSE 1)]_vars

\* a call has updated the first of two records of its type and name to its
\* content; the second is as it was
C34_Witness ==
    \E c \in Callers :
       /\ call[c].op = "upsertDnsRecord" /\ call[c].pc = "done"
       /\ call[c].sent = "PUT" /\ ~call[c].threw
       /\ Cardinality(MatchesIn(call[c].existing, "A", call[c].name)) = 2
       /\ \E i, j \in 1..Len(zone) :
             /\ i < j
             /\ zone[i].id = call[c].id /\ zone[i].content = call[c].content
             /\ zone[i].proxied
             /\ zone[j].type = "A" /\ zone[j].name = call[c].name /\ ~zone[j].proxied

\* C40: two calls of upsertDnsRecord for the same type and name that both
\* listed the zone when it had no record of that type and name do not both
\* create a record, so that the two calls leave one such record, not two.
C40_ConcurrentUpsertsLeaveOne ==
    \A c1, c2 \in Callers :
       (/\ c1 # c2
        /\ call[c1].op = "upsertDnsRecord" /\ call[c1].pc = "done"
        /\ call[c2].op = "upsertDnsRecord" /\ call[c2].pc = "done"
        /\ call[c1].type = call[c2].type /\ call[c1].name = call[c2].name
        /\ MatchesIn(call[c1].existing, call[c1].type, call[c1].name) = {}
        /\ MatchesIn(call[c2].existing, call[c2].type, call[c2].name) = {}
        /\ call[c1].sent = "POST" /\ call[c2].sent = "POST")
          => ~(~call[c1].threw /\ ~call[c2].threw)

\* C35: a run whose Image Builder call returned success=false writes the
\* builder's transcript to buildLogs in a step of its own, with the status
\* as it was, before it goes to its catch block; the catch block's write
\* (status failed) leaves buildLogs alone, so that when the run returns
\* buildLogs is set, and is this run's transcript if the row has had no
\* other run.
C35_BuildLogsBeforeFailed ==
    [][\A w \in Workers :
          LET d == worker[w].id IN
          /\ (worker[w].pc = "logs" /\ ~worker[w].buildResult.success /\ worker'[w] # worker[w])
                => /\ worker'[w].pc = "catch"
                   /\ deployments'[d].buildLogs = worker[w].buildResult.logs
                   /\ deployments'[d].status = deployments[d].status
          /\ (worker[w].pc = "catch" /\ BuildFailed(w))
                => deployments[d].buildLogs # NULL
          /\ (BuildFailed(w) /\ Returns(w))
                => /\ deployments'[d].status = "failed"
                   /\ deployments'[d].buildLogs = deployments[d].buildLogs
                   /\ audit[d].runs = 1
                         => deployments'[d].buildLogs = worker[w].buildResult.logs]_vars

\* a run is in its catch block after a failed build: the transcript is in
\* the row, whose status is still building
C35_Witness ==
    \E w \in Workers :
       /\ worker[w].pc = "catch" /\ BuildFailed(w)
       /\ deployments[worker[w].id].buildLogs = "transcript failed"
       /\ deployments[worker[w].id].status = "building"
       /\ deployments[worker[w].id].finishedAt = NULL

\* the rows that one run at most has written
RunOnce(d) == audit[d].runs <= 1

\* C36: in every state, also while a run and a cancel of the row interleave,
\* finishedAt of a row (processed by one run at most) is set if and only if
\* its status is live or failed.
C36_FinishedIffTerminal ==
    \A d \in Ids :
       RunOnce(d) => (deployments[d].finishedAt # NULL <=> deployments[d].status \in Terminal)

\* C37: in every state, also while a run and a cancel of the row interleave,
\* error of a row (processed by one run at most) is set if and only if its
\* status is failed; a live row has no error.
C37_ErrorIffFailed ==
    \A d \in Ids :
       RunOnce(d) => (deployments[d].error # NULL <=> deployments[d].status = "failed")

\* C38: when every database write and every external call of a run comes
\* back, every run that has read its row returns, and the step in which it
\* returns writes status live or failed with finishedAt to the row: no run
\* returns leaving the status it wrote at building or deploying.
C38_RunEndsTerminal ==
    /\ \A w \in Workers : (worker[w].pc # "idle") ~> (worker[w].pc = "idle")
    /\ [][\A w \in Workers :
             Returns(w) => /\ deployments'[worker[w].id].status \in Terminal
                           /\ deployments'[worker[w].id].finishedAt # NULL]_vars

\* the only run of a row has returned and the row is live
C38_Witness ==
    \E d \in Ids : /\ audit[d].runs = 1 /\ ~RunningOn(d) /\ ~audit[d].cancelled
                   /\ deployments[d].status = "live"
                   /\ deployments[d].finishedAt # NULL
                   /\ deployments[d].error = NULL

\* the user does not own the project of row id, or there is no such row
NotOwnedOrMissing(user, id) == id \notin Ids \/ OwnerOf(id) # user

\* C39: get, getLogs, cancel and rollback called by a user who does not own
\* the project of the row answer NOT_FOUND, the answer they give for an id
\* that is not in the table, whatever the status of the row; the call ends
\* there and no row is changed or inserted.
C39_NotOwnerIsNotFound ==
    [][\A q \in Requests, u \in Users, id \in 1..MaxDeployments :
          NotOwnedOrMissing(u, id) =>
             /\ ReadDeployment(q, "get", u, id)
                   => request'[q].outcome = "NOT_FOUND" /\ deployments' = deployments
             /\ ReadDeployment(q, "getLogs", u, id)
                   => request'[q].outcome = "NOT_FOUND" /\ deployments' = deployments
             /\ CancelRead(q, u, id)
                   => /\ request'[q] = Answered("cancel", "NOT_FOUND")
                      /\ deployments' = deployments
             /\ RollbackRead(q, u, id)
                   => /\ request'[q] = Answered("rollback", "NOT_FOUND")
                      /\ deployments' = deployments]_vars

\* getLogs of a live row of another user's project has answered NOT_FOUND
C39_Witness ==
    \E q \in Requests :
       /\ request[q].op = "getLogs" /\ request[q].pc = "done"
       /\ request[q].outcome = "NOT_FOUND"
       /\ request[q].id \in Ids
       /\ deployments[request[q].id].status = "live"

=============================================================================
